---- MODULE Spec2Model ----
(***************************************************************************)
(* Model of screeps-pluggable: the Packed CostMatrix codec                 *)
(* (update / pack / unpack over the process-wide OFFSETS table), the Atlas *)
(* cost cache (PACKED_COSTS / COSTS_ROOM / COSTS_CREEP) and the Navigator  *)
(* path follower (getNextMove / isAtExpected / moveObstruction).           *)
(***************************************************************************)
EXTENDS Integers, Sequences, FiniteSets, TLC

(***************************************************************************)
(* Program constants                                                       *)
(***************************************************************************)
SPACER == 22
TRIGGER == 65355
RESET_FREQUENCY == 500
ROOM_SIZE == 50
NUM_CELLS == 2500
CHAR_RANGE == 65536
BYTE_RANGE == 256
MAX_COST == 255

(***************************************************************************)
(* Bounds of the model                                                     *)
(***************************************************************************)
\* most codec calls (update, set, pack, unpack) in one run
MaxOps == 4

\* the cost values given to update() and set(): in range, zero, out of
\* range, and one value (77) that no seeded table holds
CostInputs == {0, 5, 77, 300}
\* the cells written
CellInputs == {<<10, 10>>, <<10, 11>>}

\* a table of 22 distinct costs; the live table starts as one of its prefixes
TableSeed ==
    <<1, 5, 255, 2, 3, 4, 6, 7, 8, 9, 10, 11, 12, 13, 14, 15, 16, 17, 18, 19,
      20, 21>>
SeedSizes == {0, 3, 10, 22}

\* Atlas: the steps after the module is loaded, and the Atlas calls made in
\* one run
MaxTicks == 2
MaxCalls == 3
\* the module is loaded one step before a multiple of RESET_FREQUENCY
StartTime == RESET_FREQUENCY - 1

\* the regions (room names)
Rooms == {"E1N1", "E2N1"}
\* terrain walls of each region (Room.Terrain)
Walls(room) == IF room = "E1N1" THEN {<<1, 49>>} ELSE {}
\* structures and own construction sites of each region, in the order
\* room.find() lists them: on (0,48) the costlier one comes first, on
\* (2,48) the cheaper one
Structures(room) ==
    IF room = "E1N1"
    THEN <<[x |-> 0, y |-> 48, type |-> "container", my |-> FALSE, isPublic |-> FALSE],
           [x |-> 0, y |-> 49, type |-> "spawn", my |-> TRUE, isPublic |-> FALSE],
           [x |-> 0, y |-> 48, type |-> "road", my |-> FALSE, isPublic |-> FALSE],
           [x |-> 0, y |-> 49, type |-> "rampart", my |-> TRUE, isPublic |-> FALSE],
           [x |-> 2, y |-> 48, type |-> "road", my |-> FALSE, isPublic |-> FALSE],
           [x |-> 2, y |-> 48, type |-> "rampart", my |-> FALSE, isPublic |-> FALSE],
           [x |-> 2, y |-> 49, type |-> "rampart", my |-> FALSE, isPublic |-> TRUE]>>
    ELSE <<[x |-> 0, y |-> 1, type |-> "rampart", my |-> FALSE, isPublic |-> FALSE]>>
\* the regions that may be in Game.rooms in a step
VisibleChoices == {{}, {"E1N1"}}
\* where the creeps of a region may stand in a step
CreepChoices(room) == IF room = "E1N1" THEN {{}, {<<10, 12>>}} ELSE {{}}
CreepCells == UNION {UNION CreepChoices(r) : r \in Rooms}
\* opts.addArea as given by callers: none, or an override that respects
\* existing costs followed by one that replaces them, both around the spawn
\* in the corner of the region
AreaInputs ==
    {<<>>,
     <<[objects |-> <<[x |-> 0, y |-> 49, roomName |-> "E1N1"]>>, size |-> 1,
        cost |-> 20, replace |-> FALSE],
       [objects |-> <<[x |-> 0, y |-> 49, roomName |-> "E1N1"]>>, size |-> 1,
        cost |-> 30, replace |-> TRUE]>>}
\* what a caller writes into a grid it was handed
MutCell == <<10, 12>>
MutCost == 9

\* the direction constants of the game
TOP == 1
TOP_RIGHT == 2
RIGHT == 3
BOTTOM_RIGHT == 4
BOTTOM == 5
BOTTOM_LEFT == 6
LEFT == 7
TOP_LEFT == 8
HEADING_OFFSET == 122
ROOM_ORIGIN == 61
ID_OFFSET == 192
STUCK_LIMIT == 2
CHANCE == 50
RANDOM_MAX == 100

\* Navigator: getNextMove calls in one run
MaxNavCalls == 4
\* room names, as their parts: "E1N1" is <<"E", 1, "N", 1>>
WestRoom == <<"E", 1, "N", 1>>
EastRoom == <<"E", 2, "N", 1>>
\* the cells a creep is seen at: the west border of EastRoom and the cells
\* next to it, the bottom border of EastRoom, and across the border
NavCells ==
    {[x |-> x, y |-> y, roomName |-> EastRoom] : x \in 0..2, y \in {48, 49}}
        \cup {[x |-> 49, y |-> 48, roomName |-> WestRoom]}
\* the goals of navigateTo
GoalInputs ==
    {[x |-> 2, y |-> 48, roomName |-> EastRoom],
     [x |-> 20, y |-> 20, roomName |-> WestRoom]}
\* the serialized paths findPath returns
PathInputs == {<<>>, <<RIGHT>>, <<RIGHT, RIGHT>>, <<LEFT, TOP>>}
\* _.random(100)
RandomInputs == {0, 52, RANDOM_MAX}
\* what stands on the next cell of the path: nothing, or a creep. A creep
\* of the player is tired or spawning (busy) or not; earlier in the step its
\* own navigateTo may have run and called move() (moved), or another stalled
\* creep may have commanded it (swapScheduled = Game.time)
OtherInputs ==
    {[here |-> FALSE, my |-> FALSE, busy |-> FALSE, moved |-> FALSE,
      swapScheduled |-> FALSE],
     [here |-> TRUE, my |-> TRUE, busy |-> FALSE, moved |-> FALSE,
      swapScheduled |-> FALSE],
     [here |-> TRUE, my |-> TRUE, busy |-> FALSE, moved |-> TRUE,
      swapScheduled |-> FALSE],
     [here |-> TRUE, my |-> TRUE, busy |-> FALSE, moved |-> FALSE,
      swapScheduled |-> TRUE],
     [here |-> TRUE, my |-> TRUE, busy |-> TRUE, moved |-> FALSE,
      swapScheduled |-> FALSE],
     [here |-> TRUE, my |-> FALSE, busy |-> FALSE, moved |-> FALSE,
      swapScheduled |-> FALSE]}

\* Cartographer: the room of the start, the room east of it (a source keeper
\* room), a room four rooms east, and a room on no route
StartRoom == <<"E", 3, "N", 4>>
NearRoom == <<"E", 4, "N", 4>>
FarRoom == <<"E", 7, "N", 4>>
SideRoom == <<"E", 3, "N", 5>>
CartoRooms == {StartRoom, NearRoom, FarRoom, SideRoom}
CartoStart == [x |-> 48, y |-> 25, roomName |-> StartRoom]
CartoGoals ==
    {[x |-> 1, y |-> 25, roomName |-> NearRoom],
     [x |-> 25, y |-> 25, roomName |-> FarRoom]}
\* the structures on the goal cell, as lookFor(LOOK_STRUCTURES) lists them
GoalStructures ==
    {<<>>,
     <<[type |-> "road", my |-> FALSE, isPublic |-> FALSE]>>,
     <<[type |-> "container", my |-> FALSE, isPublic |-> FALSE]>>,
     <<[type |-> "rampart", my |-> TRUE, isPublic |-> FALSE]>>,
     <<[type |-> "rampart", my |-> FALSE, isPublic |-> FALSE]>>,
     <<[type |-> "spawn", my |-> TRUE, isPublic |-> FALSE]>>,
     <<[type |-> "road", my |-> FALSE, isPublic |-> FALSE],
       [type |-> "rampart", my |-> FALSE, isPublic |-> TRUE]>>}
\* what the goal cell is: terrain wall or not, its room in Game.rooms or not,
\* and what stands on it when the room is
GoalFacts ==
    {f \in [wall : BOOLEAN, visible : BOOLEAN, creep : BOOLEAN,
            structures : GoalStructures] :
        ~f.visible => (~f.creep /\ f.structures = <<>>)}
\* opts as given to findPath: maxRooms 0 and avoid {} stand for a key left out
BaseOpts ==
    [hasRange |-> FALSE, range |-> 0, trackCreeps |-> FALSE, avoid |-> {},
     maxRooms |-> 0, roomCallback |-> FALSE, stealth |-> FALSE,
     serialize |-> TRUE, visualizePathStyle |-> FALSE, anyRoom |-> FALSE,
     routeCallback |-> FALSE]
CartoOptsInputs ==
    {[BaseOpts EXCEPT !.hasRange = r[1], !.range = r[2], !.trackCreeps = t,
                      !.avoid = a, !.maxRooms = m, !.roomCallback = c] :
        r \in {<<FALSE, 0>>, <<TRUE, 0>>, <<TRUE, 3>>}, t \in BOOLEAN,
        a \in {{}, {NearRoom}}, m \in {0, 4}, c \in BOOLEAN}
    \cup {[BaseOpts EXCEPT !.stealth = st, !.serialize = se,
                           !.visualizePathStyle = v] :
             st \in BOOLEAN, se \in BOOLEAN, v \in BOOLEAN}
\* opts as given to getRoute
RouteOptsInputs ==
    {[BaseOpts EXCEPT !.avoid = a, !.anyRoom = y, !.stealth = st,
                      !.routeCallback = c] :
        a \in {{}, {NearRoom}, {FarRoom}}, y \in BOOLEAN, st \in BOOLEAN,
        c \in BOOLEAN}
\* the rooms Game.map.findRoute() asks the routeCallback about: those above
\* and a highway room
HighwayRoom == <<"E", 10, "N", 4>>
RouteRooms == CartoRooms \cup {HighwayRoom}
\* the routes a caller hands to callPathFinder; has = FALSE is null
NoRoute == [has |-> FALSE, rooms |-> <<>>]
RouteInputs ==
    {NoRoute,
     [has |-> TRUE, rooms |-> <<>>],
     [has |-> TRUE, rooms |-> <<StartRoom, NearRoom>>]}
\* the results of PathFinder.search()
SearchPaths ==
    {<<>>,
     <<[x |-> 49, y |-> 24, roomName |-> StartRoom],
       [x |-> 0, y |-> 24, roomName |-> NearRoom],
       [x |-> 1, y |-> 25, roomName |-> NearRoom]>>}
SearchResults == [incomplete : BOOLEAN, path : SearchPaths]

(***************************************************************************)
(* Helpers                                                                 *)
(***************************************************************************)
Values(b) == {b[i] : i \in DOMAIN b}
Min(a, b) == IF a < b THEN a ELSE b
Max(a, b) == IF a > b THEN a ELSE b
SetMin(S) == CHOOSE m \in S : \A n \in S : m <= n

\* Array.prototype.indexOf, 0-based, -1 when absent
IndexOf(s, v) ==
    IF \E i \in 1..Len(s) : s[i] = v
    THEN (CHOOSE i \in 1..Len(s) : s[i] = v /\ \A j \in 1..(i - 1) : s[j] # v) - 1
    ELSE -1

\* String.fromCharCode keeps 16 bits of each number
CharCode(n) == n % CHAR_RANGE
FromCharCodes(s) == [i \in 1..Len(s) |-> CharCode(s[i])]

\* the decimal digits of a table length, as character codes
DecimalChars(n) ==
    IF n < 10 THEN <<48 + n>> ELSE <<48 + (n \div 10), 48 + (n % 10)>>

\* parseInt of one character; -1 stands for NaN
ParseDigit(c) == IF c >= 48 /\ c <= 57 THEN c - 48 ELSE -1

(***************************************************************************)
(* PathFinder.CostMatrix: _bits is a Uint8Array of 2500 cells; the model   *)
(* keeps the nonzero cells only                                            *)
(***************************************************************************)
EmptyBits == [i \in {} |-> 0]

BitsGet(b, i) == IF i \in DOMAIN b THEN b[i] ELSE 0

\* a store into the typed array: out-of-range index ignored, value mod 256
BitsPut(b, i, v) ==
    IF i < 0 \/ i >= NUM_CELLS THEN b
    ELSE IF v % BYTE_RANGE = 0
         THEN [j \in (DOMAIN b) \ {i} |-> b[j]]
         ELSE [j \in (DOMAIN b) \cup {i} |-> IF j = i THEN v % BYTE_RANGE ELSE b[j]]

Clamp(c) == Min(Max(0, c), MAX_COST)

NewMatrix == [bits |-> EmptyBits, costMap |-> <<>>]

\* CostMatrix.prototype.get / set / clone of the game API
MatrixGet(m, x, y) == BitsGet(m.bits, x * ROOM_SIZE + y)
MatrixSet(m, x, y, c) ==
    [m EXCEPT !.bits = BitsPut(m.bits, x * ROOM_SIZE + y, Clamp(c))]
MatrixClone(m) == [bits |-> m.bits, costMap |-> <<>>]

\* update(x, y, cost): result is the matrix and the live table
MatrixUpdateFront(m, offs, x, y, c) ==
    LET index == x * ROOM_SIZE + y
        found == IndexOf(offs, c)
        offset == IF found = -1 THEN 0 ELSE found
    IN  [m    |-> [bits    |-> BitsPut(m.bits, index, Clamp(c)),
                   costMap |-> Append(m.costMap, index * SPACER + offset)],
         offs |-> IF found = -1 THEN <<c>> \o offs ELSE offs]

MatrixUpdate(m, offs, x, y, c) ==
    LET index == x * ROOM_SIZE + y
        found == IndexOf(offs, c)
        offset == IF found = -1 THEN Len(offs) ELSE found
    IN  [m    |-> [bits    |-> BitsPut(m.bits, index, Clamp(c)),
                   costMap |-> Append(m.costMap, index * SPACER + offset)],
         offs |-> IF found = -1 THEN Append(offs, c) ELSE offs]

\* the scan of pack(): cells in ascending index order
RECURSIVE PackScan(_, _, _, _)
PackScan(bits, todo, offs, cm) ==
    IF todo = {} THEN [offs |-> offs, costMap |-> cm]
    ELSE LET i == SetMin(todo)
             found == IndexOf(offs, bits[i])
             offset == IF found = -1 THEN Len(offs) ELSE found
         IN  PackScan(bits, todo \ {i},
                      IF found = -1 THEN Append(offs, bits[i]) ELSE offs,
                      Append(cm, i * SPACER + offset))

\* pack(freeze): the string, the matrix (costMap filled) and the live table
MatrixPackSharedTable(m, offs, freeze) ==
    LET base == IF freeze
                THEN <<TRIGGER>> \o DecimalChars(Len(offs)) \o FromCharCodes(offs)
                ELSE <<>>
    IN  IF Len(m.costMap) > 0
        THEN [str |-> base \o FromCharCodes(m.costMap), m |-> m, offs |-> offs]
        ELSE LET scan == PackScan(m.bits, DOMAIN m.bits, offs, <<>>)
             IN  [str  |-> base \o FromCharCodes(scan.costMap),
                  m    |-> [m EXCEPT !.costMap = scan.costMap],
                  offs |-> scan.offs]

MatrixPack(m, offs, freeze) ==
    LET base == IF freeze
                THEN <<TRIGGER>> \o DecimalChars(Len(offs)) \o FromCharCodes(offs)
                ELSE <<>>
    IN  IF Len(m.costMap) > 0
        THEN [str |-> base \o FromCharCodes(m.costMap), m |-> m, offs |-> offs]
        ELSE LET scan == PackScan(m.bits, DOMAIN m.bits, offs, <<>>)
             IN  [str  |-> base \o FromCharCodes(scan.costMap),
                  m    |-> [m EXCEPT !.costMap = scan.costMap],
                  offs |-> IF freeze THEN offs ELSE scan.offs]

\* _deserializeOffset: the table stored in a frozen string; a character
\* missing from the string reads as NaN, which a cell stores as 0
DeserializeOffset(packed) ==
    LET codecLength == IF Len(packed) >= 2 THEN ParseDigit(packed[2]) ELSE -1
    IN  IF codecLength <= 0 THEN <<>>
        ELSE [k \in 1..codecLength |->
                 IF k + 2 <= Len(packed) THEN packed[k + 2] ELSE 0]

RECURSIVE UnpackFrom(_, _, _, _)
UnpackFrom(packed, i, codec, bits) ==
    IF i > Len(packed) THEN bits
    ELSE LET value == packed[i]
             sym == value % SPACER
             cost == IF sym + 1 <= Len(codec) THEN codec[sym + 1] ELSE 0
         IN  UnpackFrom(packed, i + 1, codec,
                        BitsPut(bits, value \div SPACER, cost))

\* CostMatrix.unpack(packed) against the live table offs
MatrixUnpack(packed, offs) ==
    LET frozen == Len(packed) > 0 /\ packed[1] = TRIGGER
        codec == IF frozen THEN DeserializeOffset(packed) ELSE offs
        start == IF frozen THEN Len(codec) + 2 ELSE 0
    IN  [bits |-> UnpackFrom(packed, start + 1, codec, EmptyBits),
         costMap |-> <<>>]

(***************************************************************************)
(* Atlas: the CostMatrix cache.  Its operations are written as functions   *)
(* of the module state st = [offs, packed, room, creep, heap, allocs,      *)
(* lastReset], read in the step (time, visible, creeps) they run in.       *)
(***************************************************************************)
MapPut(f, k, v) == [x \in (DOMAIN f) \cup {k} |-> IF x = k THEN v ELSE f[x]]
MapDel(f, K) == [x \in (DOMAIN f) \ K |-> f[x]]
EmptyMap == [x \in {} |-> 0]

\* new PathFinder.CostMatrix() and friends: the instance made next in this
\* step
NewRef(st, now) == <<now, st.allocs + 1>>
Born(ref) == ref[1]

\* the cost _addStructures gives a structure
StructureCost(obj) ==
    IF obj.type = "road" THEN 1
    ELSE IF obj.type = "rampart" THEN (IF obj.my \/ obj.isPublic THEN 0 ELSE MAX_COST)
    ELSE IF obj.type = "container" THEN 5
    ELSE MAX_COST

\* _addStructures that writes every structure's cost: the last one listed
\* on a cell wins
RECURSIVE AddStructuresLastWins(_, _, _, _)
AddStructuresLastWins(objects, i, m, offs) ==
    IF i > Len(objects) THEN [m |-> m, offs |-> offs]
    ELSE LET obj == objects[i]
             r == MatrixUpdate(m, offs, obj.x, obj.y, StructureCost(obj))
         IN  AddStructuresLastWins(objects, i + 1, r.m, r.offs)

\* _addStructures: result is the matrix and the live table
RECURSIVE AddStructures(_, _, _, _)
AddStructures(objects, i, m, offs) ==
    IF i > Len(objects) THEN [m |-> m, offs |-> offs]
    ELSE LET obj == objects[i]
             cost == StructureCost(obj)
         IN  IF cost > MatrixGet(m, obj.x, obj.y)
             THEN LET r == MatrixUpdate(m, offs, obj.x, obj.y, cost)
                  IN  AddStructures(objects, i + 1, r.m, r.offs)
             ELSE AddStructures(objects, i + 1, m, offs)

IsWallAt(x, y, roomName) == <<x, y>> \in Walls(roomName)

\* getWalkableArea: the non-wall cells of the square around obj, by columns
GetWalkableArea(obj, size) ==
    LET left == Max(0, obj.x - size)
        right == Min(ROOM_SIZE - 1, obj.x + size)
        top == Max(0, obj.y - size)
        bottom == Min(ROOM_SIZE - 1, obj.y + size)
        h == bottom - top + 1
        tiles == [k \in 1..((right - left + 1) * h) |->
                     <<left + ((k - 1) \div h), top + ((k - 1) % h)>>]
    IN  SelectSeq(tiles, LAMBDA t : ~IsWallAt(t[1], t[2], obj.roomName))

RECURSIVE AreaGrid(_, _, _)
AreaGrid(objects, i, size) ==
    IF i > Len(objects) THEN <<>>
    ELSE GetWalkableArea(objects[i], size) \o AreaGrid(objects, i + 1, size)

RECURSIVE AreaFill(_, _, _, _, _, _)
AreaFill(grid, i, threshold, cost, m, offs) ==
    IF i > Len(grid) THEN [m |-> m, offs |-> offs]
    ELSE IF MatrixGet(m, grid[i][1], grid[i][2]) < threshold
         THEN LET r == MatrixUpdate(m, offs, grid[i][1], grid[i][2], cost)
              IN  AreaFill(grid, i + 1, threshold, cost, r.m, r.offs)
         ELSE AreaFill(grid, i + 1, threshold, cost, m, offs)

\* _addArea that takes every override as replacing
RECURSIVE AddAreaAlwaysReplace(_, _, _, _)
AddAreaAlwaysReplace(goals, g, m, offs) ==
    IF g > Len(goals) THEN [m |-> m, offs |-> offs]
    ELSE LET goal == goals[g]
             grid == AreaGrid(goal.objects, 1, goal.size)
             r == AreaFill(grid, 1, MAX_COST, goal.cost, m, offs)
         IN  AddAreaAlwaysReplace(goals, g + 1, r.m, r.offs)

\* _addArea
RECURSIVE AddArea(_, _, _, _)
AddArea(goals, g, m, offs) ==
    IF g > Len(goals) THEN [m |-> m, offs |-> offs]
    ELSE LET goal == goals[g]
             grid == AreaGrid(goal.objects, 1, goal.size)
             threshold == IF goal.replace = FALSE THEN 1 ELSE MAX_COST
             r == AreaFill(grid, 1, threshold, goal.cost, m, offs)
         IN  AddArea(goals, g + 1, r.m, r.offs)

\* refresh(id, opts)
Refresh(st, id, addArea, now, vis) ==
    LET ref == NewRef(st, now)
        s1 == [st EXCEPT !.room = MapPut(st.room, id, ref),
                         !.heap = MapPut(st.heap, ref, NewMatrix),
                         !.allocs = st.allocs + 1]
    IN  IF id \notin vis THEN s1
        ELSE LET a == AddStructures(Structures(id), 1, NewMatrix, st.offs)
                 b == IF addArea # <<>> THEN AddArea(addArea, 1, a.m, a.offs) ELSE a
                 p == MatrixPack(b.m, b.offs, FALSE)
             IN  [s1 EXCEPT !.heap = MapPut(st.heap, ref, p.m),
                            !.offs = p.offs,
                            !.packed = MapPut(st.packed, id, p.str)]

\* _reset() that forgets the overlays: they outlive the step
ResetKeepingOverlays(st, now, vis) ==
    LET swept == IF now % RESET_FREQUENCY = 0
                 THEN MapDel(st.packed, vis)
                 ELSE st.packed
    IN  [st EXCEPT !.packed = swept,
                   !.room = MapDel(st.room, DOMAIN st.room),
                   !.lastReset = now]

\* _reset()
Reset(st, now, vis) ==
    LET swept == IF now % RESET_FREQUENCY = 0
                 THEN MapDel(st.packed, vis)
                 ELSE st.packed
        unpacked == DOMAIN st.room
    IN  [st EXCEPT !.packed = swept,
                   !.room = MapDel(st.room, unpacked),
                   !.creep = MapDel(st.creep, unpacked),
                   !.lastReset = now]

\* the three lines of getCosts that unpack the durable entry
Materialize(st, id, now) ==
    LET ref == NewRef(st, now)
    IN  [st EXCEPT !.room = MapPut(st.room, id, ref),
                   !.heap = MapPut(st.heap, ref, MatrixUnpack(st.packed[id], st.offs)),
                   !.allocs = st.allocs + 1]

RECURSIVE SetAll(_, _, _)
SetAll(m, cells, c) ==
    IF cells = {} THEN m
    ELSE LET p == CHOOSE q \in cells : TRUE
         IN  SetAll(MatrixSet(m, p[1], p[2], c), cells \ {p}, c)

\* _addCreeps(id) without the clone: the creeps are written into the per-step
\* grid itself
AddCreepsInPlace(st, id, now, crp) ==
    LET ref == st.room[id]
    IN  [st EXCEPT !.creep = MapPut(st.creep, id, ref),
                   !.heap = MapPut(st.heap, ref, SetAll(st.heap[ref], crp[id], MAX_COST))]

\* _addCreeps(id)
AddCreeps(st, id, now, crp) ==
    LET ref == NewRef(st, now)
        matrix == MatrixClone(st.heap[st.room[id]])
    IN  [st EXCEPT !.creep = MapPut(st.creep, id, ref),
                   !.heap = MapPut(st.heap, ref, SetAll(matrix, crp[id], MAX_COST)),
                   !.allocs = st.allocs + 1]

\* getCosts(id, opts): the module state after each of its statements, and
\* the instance returned
GetCostsRun(st, id, opts, now, vis, crp) ==
    LET s1 == IF st.lastReset < now THEN Reset(st, now, vis) ELSE st
        rebuild == id \notin DOMAIN s1.packed \/ opts.refreshMatrix
        s2 == IF rebuild THEN Refresh(s1, id, opts.addArea, now, vis) ELSE s1
        unpacks == id \notin DOMAIN s2.room
        s3 == IF unpacks THEN Materialize(s2, id, now) ELSE s2
        tracked == opts.trackCreeps /\ id \in vis
        overlays == tracked /\ id \notin DOMAIN s3.creep
        s4 == IF overlays THEN AddCreeps(s3, id, now, crp) ELSE s3
    IN  [st |-> s4,
         ret |-> IF tracked THEN s4.creep[id] ELSE s4.room[id],
         s1 |-> s1, s2 |-> s2, s3 |-> s3,
         didReset |-> st.lastReset < now, rebuild |-> rebuild,
         unpacks |-> unpacks, overlays |-> overlays]

(***************************************************************************)
(* RoomPosition helpers and the Navigator                                  *)
(***************************************************************************)
Abs(n) == IF n < 0 THEN -n ELSE n
Sign(n) == IF n > 0 THEN 1 ELSE IF n < 0 THEN -1 ELSE 0

\* roomNameToXY(roomName)
RoomNameToXY(roomName) ==
    LET x0 == roomName[2] + ROOM_ORIGIN
        x == IF roomName[1] = "W" THEN (ROOM_ORIGIN - 1) - (x0 - ROOM_ORIGIN) ELSE x0
        y0 == roomName[4] + ROOM_ORIGIN
        y == IF roomName[3] = "N" THEN (ROOM_ORIGIN - 1) - (y0 - ROOM_ORIGIN) ELSE y0
    IN  x * HEADING_OFFSET + y

\* getDirection, had the diagonals to the left taken the sign of dy as it is
GetDirectionUnflipped(dx, dy) ==
    LET adx == Abs(dx)
        ady == Abs(dy)
    IN  IF adx > ady * 2 THEN (IF dx > 0 THEN RIGHT ELSE LEFT)
        ELSE IF ady > adx * 2 THEN (IF dy > 0 THEN BOTTOM ELSE TOP)
        ELSE IF dx < 0 THEN LEFT + Sign(dy)
        ELSE IF dx > 0 THEN RIGHT + Sign(dy)
        ELSE 0

\* getDirection(dx, dy); 0 stands for undefined
GetDirection(dx, dy) ==
    LET adx == Abs(dx)
        ady == Abs(dy)
    IN  IF adx > ady * 2 THEN (IF dx > 0 THEN RIGHT ELSE LEFT)
        ELSE IF ady > adx * 2 THEN (IF dy > 0 THEN BOTTOM ELSE TOP)
        ELSE IF dx < 0 THEN LEFT + Sign(dy) * (-1)
        ELSE IF dx > 0 THEN RIGHT + Sign(dy)
        ELSE 0

\* RoomPosition.prototype.getDirectionTo(goal)
GetDirectionTo(this, goal) ==
    IF this.roomName = goal.roomName
    THEN GetDirection(goal.x - this.x, goal.y - this.y)
    ELSE LET thisRoom == RoomNameToXY(this.roomName)
             thatRoom == RoomNameToXY(goal.roomName)
             thatRX == thatRoom \div HEADING_OFFSET
             thisRX == thisRoom \div HEADING_OFFSET
             thatRY == thatRoom - thatRX * HEADING_OFFSET
             thisRY == thisRoom - thisRX * HEADING_OFFSET
         IN  GetDirection(thatRX * ROOM_SIZE + goal.x - thisRX * ROOM_SIZE - this.x,
                          thatRY * ROOM_SIZE + goal.y - thisRY * ROOM_SIZE - this.y)

COMPLIMENTS ==
    <<BOTTOM, BOTTOM_LEFT, LEFT, TOP_LEFT, TOP, TOP_RIGHT, RIGHT, BOTTOM_RIGHT>>

\* Navigator.positionToId / positionFromId
PositionToId(pos) ==
    <<CharCode(pos.x + ID_OFFSET), CharCode(pos.y + ID_OFFSET), pos.roomName>>
PositionFromId(id) ==
    [x |-> id[1] - ID_OFFSET, y |-> id[2] - ID_OFFSET, roomName |-> id[3]]

\* +cache.path[0]; 0 stands for NaN
HeadMove(path) == IF path = <<>> THEN 0 ELSE Head(path)

\* Navigator.isAtExpected(creep, cache): its result and the stall counter
IsAtExpected(pos, cache) ==
    LET p1 == pos
        p2 == PositionFromId(cache.last)
        isExit == p1.x = 0 \/ p2.x = 0 \/ p1.y = ROOM_SIZE - 1 \/ p2.y = ROOM_SIZE - 1
    IN  IF isExit \/ (p1.x = p2.x /\ p1.y = p2.y)
        THEN [ok |-> FALSE, stuck |-> cache.stuck + 1]
        ELSE [ok |-> COMPLIMENTS[HeadMove(cache.path)] = GetDirectionTo(p1, p2),
              stuck |-> 0]

OffsetsX == <<0, 1, 1, 1, 0, -1, -1, -1>>
OffsetsY == <<-1, -1, 0, 1, 1, 1, 0, -1>>

NoSwap == [scheduled |-> FALSE, direction |-> 0]

\* Navigator.moveObstruction(creep, opts): its result, opts.trackCreeps after
\* it, and the move it orders the creep on the next cell to make
MoveObstructionTrueAtBorder(pos, path, opts, other) ==
    LET direction == HeadMove(path)
        dx == OffsetsX[direction] + pos.x
        dy == OffsetsY[direction] + pos.y
        inside == ~(dx < 0 \/ dx > ROOM_SIZE - 1 \/ dy < 0 \/ dy > ROOM_SIZE - 1)
    IN  [ret |-> TRUE,
         trackCreeps |-> IF other.here /\ inside THEN opts.trackCreeps ELSE TRUE,
         swap |-> IF inside /\ other.here /\ other.my /\ ~other.busy
                  THEN [scheduled |-> TRUE,
                        direction |->
                            GetDirectionTo([x |-> dx, y |-> dy,
                                            roomName |-> pos.roomName], pos)]
                  ELSE NoSwap]

MoveObstruction(pos, path, opts, other) ==
    LET direction == HeadMove(path)
        dx == OffsetsX[direction] + pos.x
        dy == OffsetsY[direction] + pos.y
    IN  IF dx < 0 \/ dx > ROOM_SIZE - 1 \/ dy < 0 \/ dy > ROOM_SIZE - 1
        THEN [ret |-> FALSE, trackCreeps |-> opts.trackCreeps, swap |-> NoSwap]
        ELSE [ret |-> TRUE,
              trackCreeps |-> IF other.here THEN opts.trackCreeps ELSE TRUE,
              swap |-> IF other.here /\ other.my /\ ~other.busy
                       THEN [scheduled |-> TRUE,
                             direction |->
                                 GetDirectionTo([x |-> dx, y |-> dy,
                                                 roomName |-> pos.roomName], pos)]
                       ELSE NoSwap]

\* creep.memory._nav before the first call: an empty object
NoId == <<0, 0, <<>>>>
NoNav == [path |-> <<>>, target |-> NoId, last |-> NoId, stuck |-> 0]

\* Navigator.getNewPath(creep, goal, cache, opts): the cache, opts and the
\* position findPath is called from; found is the path findPath returns
GetNewPathKeepingStuck(pos, goal, cache, opts, found) ==
    [cache |-> [cache EXCEPT !.target = PositionToId(goal), !.path = found],
     opts |-> [opts EXCEPT !.anyRoom = @ \/ opts.stealth,
                           !.addArea = @ \/ opts.stealth],
     from |-> pos]

GetNewPath(pos, goal, cache, opts, found) ==
    [cache |-> [cache EXCEPT !.target = PositionToId(goal), !.stuck = 0,
                             !.path = found],
     opts |-> [opts EXCEPT !.anyRoom = @ \/ opts.stealth,
                           !.addArea = @ \/ opts.stealth],
     from |-> pos]

NoPos == [x |-> -1, y |-> -1, roomName |-> <<>>]

\* getNextMove, had it looked at the next cell whatever opts.trackCreeps
GetNextMoveRunEager(pos, cache, goal, opts, draw, other, found) ==
    LET miss == ~(cache.path # <<>> /\ cache.target = PositionToId(goal))
        at == IF miss THEN [ok |-> FALSE, stuck |-> cache.stuck]
              ELSE IsAtExpected(pos, cache)
        popped == ~miss /\ at.ok
        triggered == ~miss /\ ~at.ok /\ at.stuck > STUCK_LIMIT
                        /\ CHANCE > draw - at.stuck
        resolving == triggered
        mo == IF resolving THEN MoveObstruction(pos, cache.path, opts, other)
              ELSE [ret |-> FALSE, trackCreeps |-> opts.trackCreeps, swap |-> NoSwap]
        pathError == miss \/ (triggered /\ (opts.trackCreeps \/ mo.ret))
        cache1 == [path |-> IF popped THEN Tail(cache.path) ELSE cache.path,
                   target |-> cache.target,
                   last |-> PositionToId(pos),
                   stuck |-> at.stuck]
        opts1 == [trackCreeps |-> mo.trackCreeps, stealth |-> opts.stealth,
                  anyRoom |-> FALSE, addArea |-> FALSE]
        new == IF pathError THEN GetNewPath(pos, goal, cache1, opts1, found)
               ELSE [cache |-> cache1, opts |-> opts1, from |-> NoPos]
    IN  [cache |-> new.cache, ret |-> HeadMove(new.cache.path), miss |-> miss,
         popped |-> popped, triggered |-> triggered, pathError |-> pathError,
         draws |-> ~miss /\ ~at.ok /\ at.stuck > STUCK_LIMIT,
         resolving |-> resolving, resolved |-> mo.ret,
         from |-> new.from, optsAfter |-> new.opts, swap |-> mo.swap]

\* getNextMove, had it left the head of the path in place when the creep is
\* where the head move led
GetNextMoveRunKeepHead(pos, cache, goal, opts, draw, other, found) ==
    LET miss == ~(cache.path # <<>> /\ cache.target = PositionToId(goal))
        at == IF miss THEN [ok |-> FALSE, stuck |-> cache.stuck]
              ELSE IsAtExpected(pos, cache)
        popped == ~miss /\ at.ok
        triggered == ~miss /\ ~at.ok /\ at.stuck > STUCK_LIMIT
                        /\ CHANCE > draw - at.stuck
        resolving == triggered /\ ~opts.trackCreeps
        mo == IF resolving THEN MoveObstruction(pos, cache.path, opts, other)
              ELSE [ret |-> FALSE, trackCreeps |-> opts.trackCreeps, swap |-> NoSwap]
        pathError == miss \/ (triggered /\ (opts.trackCreeps \/ mo.ret))
        cache1 == [path |-> cache.path,
                   target |-> cache.target,
                   last |-> PositionToId(pos),
                   stuck |-> at.stuck]
        opts1 == [trackCreeps |-> mo.trackCreeps, stealth |-> opts.stealth,
                  anyRoom |-> FALSE, addArea |-> FALSE]
        new == IF pathError THEN GetNewPath(pos, goal, cache1, opts1, found)
               ELSE [cache |-> cache1, opts |-> opts1, from |-> NoPos]
    IN  [cache |-> new.cache, ret |-> HeadMove(new.cache.path), miss |-> miss,
         popped |-> popped, triggered |-> triggered, pathError |-> pathError,
         draws |-> ~miss /\ ~at.ok /\ at.stuck > STUCK_LIMIT,
         resolving |-> resolving, resolved |-> mo.ret,
         from |-> new.from, optsAfter |-> new.opts, swap |-> mo.swap]

\* getNextMove, had it compared the draw with 50 whatever the stall counter
GetNextMoveRunFlatChance(pos, cache, goal, opts, draw, other, found) ==
    LET miss == ~(cache.path # <<>> /\ cache.target = PositionToId(goal))
        at == IF miss THEN [ok |-> FALSE, stuck |-> cache.stuck]
              ELSE IsAtExpected(pos, cache)
        popped == ~miss /\ at.ok
        triggered == ~miss /\ ~at.ok /\ at.stuck > STUCK_LIMIT
                        /\ CHANCE > draw
        resolving == triggered /\ ~opts.trackCreeps
        mo == IF resolving THEN MoveObstruction(pos, cache.path, opts, other)
              ELSE [ret |-> FALSE, trackCreeps |-> opts.trackCreeps, swap |-> NoSwap]
        pathError == miss \/ (triggered /\ (opts.trackCreeps \/ mo.ret))
        cache1 == [path |-> IF popped THEN Tail(cache.path) ELSE cache.path,
                   target |-> cache.target,
                   last |-> PositionToId(pos),
                   stuck |-> at.stuck]
        opts1 == [trackCreeps |-> mo.trackCreeps, stealth |-> opts.stealth,
                  anyRoom |-> FALSE, addArea |-> FALSE]
        new == IF pathError THEN GetNewPath(pos, goal, cache1, opts1, found)
               ELSE [cache |-> cache1, opts |-> opts1, from |-> NoPos]
    IN  [cache |-> new.cache, ret |-> HeadMove(new.cache.path), miss |-> miss,
         popped |-> popped, triggered |-> triggered, pathError |-> pathError,
         draws |-> ~miss /\ ~at.ok /\ at.stuck > STUCK_LIMIT,
         resolving |-> resolving, resolved |-> mo.ret,
         from |-> new.from, optsAfter |-> new.opts, swap |-> mo.swap]

\* Navigator.getNextMove(creep, goal, opts), with the draw of _.random(100),
\* the creep on the next cell and the path findPath returns when it is called
GetNextMoveRun(pos, cache, goal, opts, draw, other, found) ==
    LET miss == ~(cache.path # <<>> /\ cache.target = PositionToId(goal))
        at == IF miss THEN [ok |-> FALSE, stuck |-> cache.stuck]
              ELSE IsAtExpected(pos, cache)
        popped == ~miss /\ at.ok
        triggered == ~miss /\ ~at.ok /\ at.stuck > STUCK_LIMIT
                        /\ CHANCE > draw - at.stuck
        resolving == triggered /\ ~opts.trackCreeps
        mo == IF resolving THEN MoveObstruction(pos, cache.path, opts, other)
              ELSE [ret |-> FALSE, trackCreeps |-> opts.trackCreeps, swap |-> NoSwap]
        pathError == miss \/ (triggered /\ (opts.trackCreeps \/ mo.ret))
        cache1 == [path |-> IF popped THEN Tail(cache.path) ELSE cache.path,
                   target |-> cache.target,
                   last |-> PositionToId(pos),
                   stuck |-> at.stuck]
        opts1 == [trackCreeps |-> mo.trackCreeps, stealth |-> opts.stealth,
                  anyRoom |-> FALSE, addArea |-> FALSE]
        new == IF pathError THEN GetNewPath(pos, goal, cache1, opts1, found)
               ELSE [cache |-> cache1, opts |-> opts1, from |-> NoPos]
    IN  [cache |-> new.cache, ret |-> HeadMove(new.cache.path), miss |-> miss,
         popped |-> popped, triggered |-> triggered, pathError |-> pathError,
         draws |-> ~miss /\ ~at.ok /\ at.stuck > STUCK_LIMIT,
         resolving |-> resolving, resolved |-> mo.ret,
         from |-> new.from, optsAfter |-> new.opts, swap |-> mo.swap]

(***************************************************************************)
(* Cartographer: findPath, callPathFinder, _getRange, _serializePath        *)
(***************************************************************************)
ROUTE_DISTANCE == 2
DEFAULT_MAX_ROOMS == 16

\* Game.map.getRoomLinearDistance(r1, r2), from the parts of the names
RoomCoord(letter, n) == IF letter \in {"W", "N"} THEN -n - 1 ELSE n
GetRoomLinearDistance(r1, r2) ==
    Max(Abs(RoomCoord(r1[1], r1[2]) - RoomCoord(r2[1], r2[2])),
        Abs(RoomCoord(r1[3], r1[4]) - RoomCoord(r2[3], r2[4])))

\* getRoomType(roomName)
GetRoomType(roomName) ==
    LET latitude == roomName[2] % 10
        longitude == roomName[4] % 10
    IN  IF ~(latitude # 0 /\ longitude # 0) THEN "highway"
        ELSE IF Abs(latitude - 5) <= 1 /\ 1 >= Abs(longitude - 5)
             THEN "sourceKeeper"
             ELSE "basic"

\* Cartographer._getRange(goal, opts); facts is what the goal cell is
GetRange(opts, facts) ==
    IF opts.hasRange THEN opts.range
    ELSE IF facts.wall THEN 1
    ELSE IF ~facts.visible THEN 0
    ELSE IF opts.trackCreeps /\ facts.creep THEN 1
    ELSE IF \E i \in DOMAIN facts.structures :
                /\ facts.structures[i].type # "road"
                /\ facts.structures[i].type # "container"
         THEN 1
         ELSE 0

\* the roomCallback callPathFinder hands to PathFinder.search(): "custom" is
\* the callback of the caller, "getCosts" is Atlas.getCosts(roomName, opts)
RoomCallbackNoAvoid(opts, route, roomName) ==
    IF opts.roomCallback THEN "custom"
    ELSE IF route.has /\ roomName \notin Values(route.rooms) THEN "false"
    ELSE "getCosts"

RoomCallback(opts, route, roomName) ==
    IF opts.roomCallback THEN "custom"
    ELSE IF route.has /\ roomName \notin Values(route.rooms) THEN "false"
    ELSE IF roomName \in opts.avoid THEN "false"
    ELSE "getCosts"

\* Cartographer.callPathFinder(start, end, opts, route): the arguments of
\* PathFinder.search()
CallPathFinder(start, end, opts, route, facts) ==
    [start |-> start,
     goal |-> [range |-> GetRange(opts, facts), pos |-> end],
     roomCallback |-> [r \in CartoRooms |-> RoomCallback(opts, route, r)],
     route |-> route,
     maxRooms |-> IF opts.maxRooms # 0 THEN opts.maxRooms
                  ELSE IF route.has THEN Len(route.rooms)
                  ELSE DEFAULT_MAX_ROOMS]

\* the stealth cut of findPath: the path up to the first source keeper room
StealthCut(path) ==
    LET sk == {i \in DOMAIN path : GetRoomType(path[i].roomName) = "sourceKeeper"}
    IN  IF sk = {} THEN path ELSE SubSeq(path, 1, SetMin(sk) - 1)

\* the loop of Cartographer._serializePath(path, start, opts)
RECURSIVE SerializeFrom(_, _, _)
SerializeFrom(path, i, current) ==
    IF i > Len(path) THEN <<>>
    ELSE (IF path[i].roomName = current.roomName
          THEN <<GetDirectionTo(current, path[i])>>
          ELSE <<>>) \o SerializeFrom(path, i + 1, path[i])

\* the weights a routeCallback returns: Infinity, a number, or whatever the
\* caller's own callback returns
INFINITE == [finite |-> FALSE, own |-> FALSE, weight |-> 0]
Weight(n) == [finite |-> TRUE, own |-> FALSE, weight |-> n]
CallersWeight == [finite |-> TRUE, own |-> TRUE, weight |-> 0]

\* the routeCallback of getRoute with one weight for highways and ordinary
\* rooms
RouteCallbackFlat(opts, roomName, mine) ==
    IF opts.routeCallback THEN CallersWeight
    ELSE IF roomName \in opts.avoid THEN INFINITE
    ELSE IF opts.anyRoom \/ roomName \in mine THEN Weight(1)
    ELSE IF GetRoomType(roomName) = "sourceKeeper" THEN INFINITE
    ELSE Weight(1)

\* the routeCallback getRoute hands to Game.map.findRoute(); mine is the set
\* of rooms isMyRoom() is true of
RouteCallback(opts, roomName, mine) ==
    IF opts.routeCallback THEN CallersWeight
    ELSE IF roomName \in opts.avoid THEN INFINITE
    ELSE IF opts.anyRoom \/ roomName \in mine THEN Weight(1)
    ELSE IF GetRoomType(roomName) = "sourceKeeper" THEN INFINITE
    ELSE IF GetRoomType(roomName) = "highway" THEN Weight(1)
    ELSE Weight(2)

\* Cartographer.getRoute(start, end, opts): the call of Game.map.findRoute()
\* it makes and the rooms returned; found is what findRoute() returns
GetRouteRun(start, end, opts, mine, found) ==
    [call |-> [start |-> start, end |-> end,
               routeCallback |-> [r \in RouteRooms |-> RouteCallback(opts, r, mine)]],
     ret |-> IF ~found.ok THEN <<>> ELSE <<start>> \o found.rooms]

\* what a call leaves: the exception it raised ("none" when it returned),
\* what it returned and the searches it started
Returned(kind, ret, searches) ==
    [threw |-> "none", kind |-> kind, ret |-> ret, searches |-> searches]
Threw(what, searches) ==
    [threw |-> what, kind |-> "none", ret |-> <<>>, searches |-> searches]

\* Cartographer.findPath(start, goal, opts); res is what PathFinder.search()
\* returns. The class has no findRoute method (its method is getRoute), so
\* this.findRoute(...) raises a TypeError.
FindPathRun(start, goal, opts, facts, res) ==
    LET distance == GetRoomLinearDistance(start.roomName, goal.roomName)
        first == CallPathFinder(start, goal, opts, NoRoute, facts)
        path == IF opts.stealth THEN StealthCut(res.path) ELSE res.path
    IN  IF distance > ROUTE_DISTANCE THEN Threw("findRoute", <<>>)
        ELSE IF res.incomplete /\ distance <= ROUTE_DISTANCE
             THEN Threw("findRoute", <<first>>)
        ELSE IF ~opts.serialize
             THEN (IF opts.visualizePathStyle
                   THEN Returned("undefined", <<>>, <<first>>)
                   ELSE Returned("positions", path, <<first>>))
        ELSE IF opts.visualizePathStyle THEN Threw("exit", <<first>>)
        ELSE Returned("string", SerializeFrom(path, 1, start), <<first>>)

(***************************************************************************)
(* State                                                                   *)
(***************************************************************************)
VARIABLES
    OFFSETS,    \* the live symbol table
    mat,        \* codec: the CostMatrix instance at hand
    hist,       \* codec: how the instance was written (history)
    pk,         \* codec: the last pack() of the instance
    un,         \* codec: the last unpack() of the packed string
    ops,        \* codec: calls made so far
    time,           \* Game.time
    visible,        \* the regions in Game.rooms in this step
    creeps,         \* region -> cells where creeps stand in this step
    lastReset,      \* Atlas.lastReset
    PACKED_COSTS,   \* region -> packed string (durable store)
    COSTS_ROOM,     \* region -> instance (per-step store)
    COSTS_CREEP,    \* region -> instance (per-step agent overlays)
    heap,           \* instance -> CostMatrix; an instance is <<step, serial>>
    allocs,         \* instances created in this step
    calls,          \* Atlas calls made so far
    call,           \* the last Atlas call and what it did (history)
    stepLog,        \* what the calls of this step did, per region (history)
    durableLog,     \* region -> when its durable entry was written (history)
    creepPos,       \* creep.pos
    nav,            \* creep.memory._nav
    phase,          \* "call": navigateTo is due; "move": the step plays out
    navCalls,       \* getNextMove calls made so far
    navCall,        \* the last getNextMove call and what it did (history)
    cartoReq,       \* Cartographer: the call to make, and what it will read
    cartoRes        \* Cartographer: what the call did (history)

codecVars == <<mat, hist, pk, un, ops>>
atlasVars ==
    <<time, visible, creeps, lastReset, PACKED_COSTS, COSTS_ROOM, COSTS_CREEP,
      heap, allocs, calls, call, stepLog, durableLog>>
navVars == <<creepPos, nav, phase, navCalls, navCall>>
cartoVars == <<cartoReq, cartoRes>>
vars == <<OFFSETS, codecVars, atlasVars, navVars, cartoVars>>

NoHist ==
    [upd |-> FALSE, set |-> FALSE, setAfterUpd |-> FALSE, updAfterSet |-> FALSE,
     inRange |-> TRUE, packed |-> FALSE]
NoPack ==
    [has |-> FALSE, str |-> <<>>, frozen |-> FALSE, orig |-> EmptyBits,
     offs |-> <<>>, offsBefore |-> <<>>, hist |-> NoHist, reset |-> FALSE]
NoUnpack ==
    [has |-> FALSE, bits |-> EmptyBits, sameTable |-> FALSE,
     offs |-> <<>>, atPack |-> EmptyBits,
     hasAgain |-> FALSE, again |-> <<>>, againSameTable |-> FALSE]

NoRef == <<0, 0>>
NoOpts == [trackCreeps |-> FALSE, refreshMatrix |-> FALSE, addArea |-> <<>>]
NoCall ==
    [kind |-> "none", id |-> "", opts |-> NoOpts, ret |-> NoRef,
     didReset |-> FALSE, dropped |-> 0, rebuild |-> FALSE, unpacks |-> FALSE,
     overlays |-> FALSE, observable |-> FALSE, base |-> EmptyBits,
     packedBase |-> EmptyMap, packedBefore |-> EmptyMap, prev |-> NoRef,
     owedBefore |-> FALSE, wroteOverlay |-> FALSE, afterOverlay |-> FALSE,
     expected |-> EmptyBits]
NoStepLog ==
    [r \in Rooms |-> [builds |-> 0, unpacks |-> 0, overlays |-> 0,
                      forced |-> FALSE]]
NoDurableLog ==
    [r \in Rooms |-> [plain |-> FALSE, at |-> -1, stayed |-> FALSE,
                      owed |-> FALSE]]

\* the Atlas module as loaded, with nothing cached
AtlasIdle ==
    /\ time = StartTime
    /\ visible = {}
    /\ creeps = [r \in Rooms |-> {}]
    /\ lastReset = StartTime
    /\ PACKED_COSTS = EmptyMap
    /\ COSTS_ROOM = EmptyMap
    /\ COSTS_CREEP = EmptyMap
    /\ heap = EmptyMap
    /\ allocs = 0
    /\ calls = 0
    /\ call = NoCall
    /\ stepLog = NoStepLog
    /\ durableLog = NoDurableLog

NoNavCall ==
    [kind |-> "none", goal |-> NoPos, miss |-> FALSE, popped |-> FALSE,
     triggered |-> FALSE, pathError |-> FALSE, ret |-> 0, from |-> NoPos,
     found |-> <<>>, before |-> NoNav, at |-> NoPos, run |-> 0,
     optsAfter |-> [trackCreeps |-> FALSE, stealth |-> FALSE,
                    anyRoom |-> FALSE, addArea |-> FALSE],
     swap |-> NoSwap, resolving |-> FALSE, resolved |-> FALSE,
     other |-> [here |-> FALSE, my |-> FALSE, busy |-> FALSE,
                moved |-> FALSE, swapScheduled |-> FALSE],
     opts |-> [trackCreeps |-> FALSE, stealth |-> FALSE,
               anyRoom |-> FALSE, addArea |-> FALSE],
     moveCmd |-> [issued |-> FALSE, direction |-> 0], draw |-> 0,
     plan |-> <<>>]

\* no creep navigating
NavIdle ==
    /\ creepPos = NoPos
    /\ nav = NoNav
    /\ phase = "call"
    /\ navCalls = 0
    /\ navCall = NoNavCall

\* no Cartographer call asked for, none made
NoCartoReq ==
    [kind |-> "none", start |-> NoPos, goal |-> NoPos, opts |-> BaseOpts,
     facts |-> [wall |-> FALSE, visible |-> FALSE, creep |-> FALSE,
                structures |-> <<>>],
     route |-> NoRoute, mine |-> {}]
NoResult == [incomplete |-> FALSE, path |-> <<>>]
NoCartoRes == [done |-> FALSE, res |-> NoResult, out |-> Returned("none", <<>>, <<>>)]
CartoIdle ==
    /\ cartoReq = NoCartoReq
    /\ cartoRes = NoCartoRes

\* no codec call made by hand
CodecIdle ==
    /\ mat = NewMatrix
    /\ hist = NoHist
    /\ pk = NoPack
    /\ un = NoUnpack
    /\ ops = 0

(***************************************************************************)
(* The codec: update(), set(), pack(), unpack() on one instance, update()  *)
(* on the grid of another region, and the reload of the module (global     *)
(* reset), which empties OFFSETS                                           *)
(***************************************************************************)
InitCodec ==
    /\ \E k \in SeedSizes : OFFSETS = SubSeq(TableSeed, 1, k)
    /\ mat = NewMatrix
    /\ hist = NoHist
    /\ pk = NoPack
    /\ un = NoUnpack
    /\ ops = 0
    /\ AtlasIdle
    /\ NavIdle
    /\ CartoIdle

Update(x, y, c) ==
    /\ ops < MaxOps
    /\ LET r == MatrixUpdate(mat, OFFSETS, x, y, c)
       IN  /\ mat' = r.m
           /\ OFFSETS' = r.offs
    /\ hist' = [hist EXCEPT !.upd = TRUE, !.updAfterSet = @ \/ hist.set,
                            !.inRange = @ /\ c = Clamp(c)]
    /\ ops' = ops + 1
    /\ UNCHANGED <<pk, un>>
    /\ UNCHANGED <<atlasVars, navVars, cartoVars>>

SetCell(x, y, c) ==
    /\ ops < MaxOps
    /\ mat' = MatrixSet(mat, x, y, c)
    /\ hist' = [hist EXCEPT !.set = TRUE,
                            !.setAfterUpd = @ \/ hist.upd]
    /\ ops' = ops + 1
    /\ UNCHANGED <<OFFSETS, pk, un>>
    /\ UNCHANGED <<atlasVars, navVars, cartoVars>>

Pack(freeze) ==
    /\ ops < MaxOps
    /\ LET r == MatrixPack(mat, OFFSETS, freeze)
       IN  /\ mat' = r.m
           /\ OFFSETS' = r.offs
           /\ pk' = [has |-> TRUE, str |-> r.str, frozen |-> freeze,
                     orig |-> mat.bits, offs |-> r.offs,
                     offsBefore |-> OFFSETS, hist |-> hist, reset |-> FALSE]
    /\ un' = NoUnpack
    /\ hist' = [hist EXCEPT !.packed = TRUE]
    /\ ops' = ops + 1
    /\ UNCHANGED <<atlasVars, navVars, cartoVars>>

Unpack ==
    /\ ops < MaxOps
    /\ pk.has
    /\ un' = [NoUnpack EXCEPT !.has = TRUE,
                               !.bits = MatrixUnpack(pk.str, OFFSETS).bits,
                               !.sameTable = OFFSETS = pk.offs,
                               !.offs = OFFSETS,
                               !.atPack = MatrixUnpack(pk.str, pk.offs).bits]
    /\ ops' = ops + 1
    /\ UNCHANGED <<OFFSETS, mat, hist, pk>>
    /\ UNCHANGED <<atlasVars, navVars, cartoVars>>

\* pack() of the instance unpack() returned
PackAgain ==
    /\ ops < MaxOps
    /\ un.has
    /\ ~un.hasAgain
    /\ LET r == MatrixPack([bits |-> un.bits, costMap |-> <<>>], OFFSETS, FALSE)
       IN  /\ OFFSETS' = r.offs
           /\ un' = [un EXCEPT !.hasAgain = TRUE, !.again = r.str,
                               !.againSameTable = (/\ OFFSETS = pk.offs
                                                   /\ r.offs = OFFSETS)]
    /\ ops' = ops + 1
    /\ UNCHANGED <<mat, hist, pk>>
    /\ UNCHANGED <<atlasVars, navVars, cartoVars>>

\* update() on the grid of another region: the table is shared
UpdateOther(x, y, c) ==
    /\ ops < MaxOps
    /\ pk.has
    /\ OFFSETS' = MatrixUpdate(NewMatrix, OFFSETS, x, y, c).offs
    /\ ops' = ops + 1
    /\ UNCHANGED <<mat, hist, pk, un>>
    /\ UNCHANGED <<atlasVars, navVars, cartoVars>>

\* the module is loaded again: the table and the instance are gone, the
\* string stored in Memory stays
GlobalReset ==
    /\ pk.has
    /\ OFFSETS # <<>>
    /\ OFFSETS' = <<>>
    /\ mat' = NewMatrix
    /\ hist' = NoHist
    /\ un' = NoUnpack
    /\ pk' = [pk EXCEPT !.reset = TRUE]
    /\ UNCHANGED ops
    /\ UNCHANGED <<atlasVars, navVars, cartoVars>>

NextCodec ==
    \/ \E p \in CellInputs, c \in CostInputs : Update(p[1], p[2], c)
    \/ \E p \in CellInputs, c \in CostInputs : SetCell(p[1], p[2], c)
    \/ \E freeze \in BOOLEAN : Pack(freeze)
    \/ Unpack
    \/ PackAgain
    \/ \E c \in CostInputs : UpdateOther(0, 0, c)
    \/ GlobalReset

SpecCodec == InitCodec /\ [][NextCodec]_vars

(***************************************************************************)
(* Atlas: getCosts() and refresh() called by pathfinding code, writes of a *)
(* caller into the grid it was handed, and the passing of game steps       *)
(***************************************************************************)
AtlasSt ==
    [offs |-> OFFSETS, packed |-> PACKED_COSTS, room |-> COSTS_ROOM,
     creep |-> COSTS_CREEP, heap |-> heap, allocs |-> allocs,
     lastReset |-> lastReset]

\* the callers' arguments: opts.addArea names objects of the region asked for
AreaFor(id) == {a \in AreaInputs : \A g \in 1..Len(a) :
                   \A i \in 1..Len(a[g].objects) : a[g].objects[i].roomName = id}
OptsInputs(id) ==
    [trackCreeps : BOOLEAN, refreshMatrix : BOOLEAN, addArea : AreaFor(id)]

\* the instances some reference still leads to
Live(st, kept) ==
    {st.room[r] : r \in DOMAIN st.room} \cup {st.creep[r] : r \in DOMAIN st.creep}
        \cup kept

Install(st, kept) ==
    /\ OFFSETS' = st.offs
    /\ PACKED_COSTS' = st.packed
    /\ COSTS_ROOM' = st.room
    /\ COSTS_CREEP' = st.creep
    /\ heap' = [ref \in (DOMAIN st.heap) \cap Live(st, kept) |-> st.heap[ref]]
    /\ allocs' = st.allocs
    /\ lastReset' = st.lastReset

\* the history of durable entries after a call that wrote the entries of
\* the regions in written and left the store as after; a getCosts call for
\* an unobservable region that rebuilt its grid owes the region a rebuild
DurableAfter(after, written, requested, owes, addArea) ==
    [r \in Rooms |->
        [plain |-> IF r \notin DOMAIN after THEN FALSE
                   ELSE IF r \in written THEN addArea = <<>>
                   ELSE durableLog[r].plain,
         at |-> IF r \notin DOMAIN after THEN -1
                ELSE IF r \in written THEN time ELSE durableLog[r].at,
         stayed |-> IF r \notin DOMAIN after THEN FALSE
                    ELSE IF r \in written THEN TRUE ELSE durableLog[r].stayed,
         owed |-> IF r \in requested THEN owes ELSE durableLog[r].owed]]

InitAtlas ==
    /\ OFFSETS = <<>>
    /\ CodecIdle
    /\ time = StartTime
    /\ visible \in VisibleChoices
    /\ creeps \in [Rooms -> SUBSET CreepCells]
    /\ \A r \in Rooms :
          creeps[r] \in (IF r \in visible THEN CreepChoices(r) ELSE {{}})
    /\ lastReset = StartTime
    /\ PACKED_COSTS = EmptyMap
    /\ COSTS_ROOM = EmptyMap
    /\ COSTS_CREEP = EmptyMap
    /\ heap = EmptyMap
    /\ allocs = 0
    /\ calls = 0
    /\ call = NoCall
    /\ stepLog = NoStepLog
    /\ durableLog = NoDurableLog
    /\ NavIdle
    /\ CartoIdle

\* the last thing done was a write into the overlay of region id: the 255s
\* of _addCreeps or a write of the caller
OverlayWritten(id) ==
    /\ call.id = id
    /\ \/ call.kind = "getCosts" /\ call.overlays
       \/ call.kind = "write" /\ call.wroteOverlay
PlainOpts(opts) == ~opts.trackCreeps /\ ~opts.refreshMatrix

GetCosts(id, opts) ==
    /\ calls < MaxCalls
    /\ \E r \in {GetCostsRun(AtlasSt, id, opts, time, visible, creeps)} :
       LET log == stepLog[id]
       IN  /\ Install(r.st, {r.ret})
           /\ call' = [kind |-> "getCosts", id |-> id, opts |-> opts,
                       ret |-> r.ret, didReset |-> r.didReset,
                       dropped |-> IF r.didReset
                                   THEN Cardinality(DOMAIN COSTS_ROOM)
                                            + Cardinality(DOMAIN COSTS_CREEP)
                                   ELSE 0,
                       rebuild |-> r.rebuild, unpacks |-> r.unpacks,
                       overlays |-> r.overlays, observable |-> id \in visible,
                       base |-> r.s3.heap[r.s3.room[id]].bits,
                       packedBase |-> r.s3.packed,
                       packedBefore |-> r.s1.packed,
                       prev |-> IF /\ call.kind = "getCosts" /\ call.id = id
                                   /\ call.opts = opts /\ ~opts.refreshMatrix
                                THEN call.ret ELSE NoRef,
                       owedBefore |-> durableLog[id].owed,
                       wroteOverlay |-> FALSE,
                       afterOverlay |-> OverlayWritten(id) /\ PlainOpts(opts),
                       expected |-> IF OverlayWritten(id) /\ PlainOpts(opts)
                                    THEN call.base ELSE EmptyBits]
           /\ stepLog' =
                [stepLog EXCEPT ![id] =
                    [builds |-> log.builds + (IF r.rebuild THEN 1 ELSE 0),
                     unpacks |-> log.unpacks + (IF r.unpacks THEN 1 ELSE 0),
                     overlays |-> log.overlays + (IF r.overlays THEN 1 ELSE 0),
                     forced |-> log.forced \/ opts.refreshMatrix]]
           /\ durableLog' = DurableAfter(r.st.packed,
                                IF r.rebuild /\ id \in visible THEN {id} ELSE {},
                                {id}, r.rebuild /\ id \notin visible,
                                opts.addArea)
    /\ calls' = calls + 1
    /\ UNCHANGED <<time, visible, creeps, codecVars, navVars, cartoVars>>

\* Atlas.refresh(id, opts) called directly
RefreshCall(id, addArea) ==
    /\ calls < MaxCalls
    /\ \E st \in {Refresh(AtlasSt, id, addArea, time, visible)} :
           /\ Install(st, {})
           /\ durableLog' = DurableAfter(st.packed,
                                IF id \in visible THEN {id} ELSE {}, {}, FALSE,
                                addArea)
    /\ call' = [NoCall EXCEPT !.kind = "refresh", !.id = id,
                              !.observable = id \in visible]
    /\ stepLog' = [stepLog EXCEPT ![id].forced = TRUE]
    /\ calls' = calls + 1
    /\ UNCHANGED <<time, visible, creeps, codecVars, navVars, cartoVars>>

\* the caller of getCosts writes a cost into the grid it was handed
WriteReturned(x, y, c) ==
    /\ call.kind = "getCosts"
    /\ call.ret \in DOMAIN heap
    /\ heap' = [heap EXCEPT ![call.ret] = MatrixSet(@, x, y, c)]
    /\ call' = [call EXCEPT !.kind = "write",
                            !.base = heap[COSTS_ROOM[call.id]].bits,
                            !.packedBase = PACKED_COSTS,
                            !.wroteOverlay = call.opts.trackCreeps /\ call.observable]
    /\ UNCHANGED <<OFFSETS, time, visible, creeps, lastReset, PACKED_COSTS,
                   COSTS_ROOM, COSTS_CREEP, allocs, calls, stepLog,
                   durableLog, codecVars, navVars, cartoVars>>

\* the next game step: Game.time advances, visibility and creeps change,
\* callers let go of the grids they were handed
Tick ==
    /\ time < StartTime + MaxTicks
    /\ time' = time + 1
    /\ visible' \in VisibleChoices
    /\ creeps' \in [Rooms -> SUBSET CreepCells]
    /\ \A r \in Rooms :
          creeps'[r] \in (IF r \in visible' THEN CreepChoices(r) ELSE {{}})
    /\ heap' = [ref \in (DOMAIN heap) \cap Live(AtlasSt, {}) |-> heap[ref]]
    /\ allocs' = 0
    /\ call' = NoCall
    /\ stepLog' = NoStepLog
    /\ durableLog' = [r \in Rooms |->
                        [durableLog[r] EXCEPT !.stayed = @ /\ r \in visible']]
    /\ UNCHANGED <<OFFSETS, lastReset, PACKED_COSTS, COSTS_ROOM, COSTS_CREEP,
                   calls, codecVars, navVars, cartoVars>>

NextAtlas ==
    \/ \E id \in Rooms : \E opts \in OptsInputs(id) : GetCosts(id, opts)
    \/ \E id \in Rooms : \E addArea \in AreaFor(id) : RefreshCall(id, addArea)
    \/ WriteReturned(MutCell[1], MutCell[2], MutCost)
    \/ Tick

SpecAtlas == InitAtlas /\ [][NextAtlas]_vars

(***************************************************************************)
(* Navigator: one creep that calls navigateTo once a step; between two     *)
(* calls the step plays out and the creep stays or is seen on a cell next  *)
(* to the one it stood on                                                  *)
(***************************************************************************)
NavOptsInputs ==
    [trackCreeps : BOOLEAN, stealth : BOOLEAN, anyRoom : {FALSE}, addArea : {FALSE}]

\* cells a creep can be on in two consecutive steps: neighbours in a room,
\* and the two sides of a border
NextTo(a, b) ==
    IF a.roomName = b.roomName
    THEN Max(Abs(a.x - b.x), Abs(a.y - b.y)) <= 1
    ELSE /\ a.y = b.y
         /\ {a.x, b.x} = {0, ROOM_SIZE - 1}

InitNav ==
    /\ OFFSETS = <<>>
    /\ CodecIdle
    /\ AtlasIdle
    /\ creepPos \in NavCells
    /\ nav = NoNav
    /\ phase = "call"
    /\ navCalls = 0
    /\ navCall = NoNavCall
    /\ CartoIdle

\* the creep is seen on the cell next to the one recorded last, in the
\* direction of the head move of the cached path
AsTold(pos, cache) ==
    LET p2 == PositionFromId(cache.last)
        direction == HeadMove(cache.path)
    IN  /\ direction # 0
        /\ pos.roomName = p2.roomName
        /\ pos.x = p2.x + OffsetsX[direction]
        /\ pos.y = p2.y + OffsetsY[direction]

\* the stalls seen in a row: the calls, since the last call that planned or
\* saw the creep where the head move led, that had a cached path to the goal
\* and saw the creep where the call before saw it; -1 when the creep was seen
\* on some other cell or a stall set off a resolution or a replan
StallRun(r, pos, cache) ==
    IF r.miss THEN 0
    ELSE IF PositionToId(pos) = cache.last
         THEN (IF r.triggered \/ navCall.run = -1 THEN -1 ELSE navCall.run + 1)
         ELSE IF AsTold(pos, cache) THEN 0 ELSE -1

\* the inputs of a call that does not read them
NoDraw == SetMin(RandomInputs)
NoOther ==
    [here |-> FALSE, my |-> FALSE, busy |-> FALSE, moved |-> FALSE,
     swapScheduled |-> FALSE]
NoPath == <<>>

\* navigateTo(target, opts) of a creep that is neither tired nor scheduled
\* for a swap (the call of such a creep returns at once and changes nothing):
\* getNextMove(creep, goal, opts), whose result goes to creep.move(). The
\* call draws _.random(100) once the stall counter is over the limit, looks
\* at the next cell in moveObstruction, and gets a path from findPath when it
\* plans; a path of one move is what findPath returns for a goal on the next
\* cell. It reads opts.trackCreeps when the stall sets off a response or it
\* plans, and opts.stealth when it plans: a call that does not read an
\* option is made with the option unset.
GetNextMove(goal, opts) ==
    /\ phase = "call"
    /\ navCalls < MaxNavCalls
    /\ \E a \in {GetNextMoveRun(creepPos, nav, goal, opts, NoDraw, NoOther, NoPath)} :
       \E draw \in (IF a.draws THEN RandomInputs ELSE {NoDraw}) :
       \E b \in {GetNextMoveRun(creepPos, nav, goal, opts, draw, NoOther, NoPath)} :
       \E other \in (IF b.resolving THEN OtherInputs ELSE {NoOther}) :
       \E c \in {GetNextMoveRun(creepPos, nav, goal, opts, draw, other, NoPath)} :
       \E found \in (IF c.pathError
                     THEN {p \in PathInputs :
                             Len(p) = 1 => /\ goal.roomName = creepPos.roomName
                                           /\ goal.x = creepPos.x + OffsetsX[p[1]]
                                           /\ goal.y = creepPos.y + OffsetsY[p[1]]}
                     ELSE {NoPath}) :
       \E r \in {IF found = NoPath THEN c
                 ELSE GetNextMoveRun(creepPos, nav, goal, opts, draw, other, found)} :
          /\ opts.trackCreeps => (c.triggered \/ c.pathError)
          /\ opts.stealth => c.pathError
          /\ nav' = r.cache
          /\ navCall' = [kind |-> "getNextMove", goal |-> goal, miss |-> r.miss,
                         popped |-> r.popped, triggered |-> r.triggered,
                         pathError |-> r.pathError, ret |-> r.ret,
                         from |-> r.from, found |-> found,
                         before |-> nav, at |-> creepPos,
                         run |-> StallRun(r, creepPos, nav),
                         optsAfter |-> r.optsAfter, swap |-> r.swap,
                         resolving |-> r.resolving, resolved |-> r.resolved,
                         other |-> other, opts |-> opts,
                         moveCmd |-> [issued |-> TRUE, direction |-> r.ret],
                         draw |-> draw,
                         plan |-> IF r.pathError THEN found ELSE navCall.plan]
    /\ phase' = "move"
    /\ navCalls' = navCalls + 1
    /\ UNCHANGED <<creepPos, OFFSETS, codecVars, atlasVars, cartoVars>>

\* the step plays out: the creep moved as told, was held up, or was pushed
StepPlays ==
    /\ phase = "move"
    /\ creepPos' \in {c \in NavCells : NextTo(creepPos, c)}
    /\ phase' = "call"
    /\ UNCHANGED <<nav, navCalls, navCall, OFFSETS, codecVars, atlasVars,
                   cartoVars>>

NextNav ==
    \/ \E goal \in GoalInputs, opts \in NavOptsInputs : GetNextMove(goal, opts)
    \/ StepPlays

SpecNav == InitNav /\ [][NextNav]_vars

\* a creep that has been held on its cell, off the exit cells isAtExpected
\* tests for, since it planned, and whose draws have put off the response so
\* far: the calls go on from a stall counter of 48
InitStall ==
    /\ OFFSETS = <<>>
    /\ CodecIdle
    /\ AtlasIdle
    /\ creepPos \in {c \in NavCells : c.x # 0 /\ c.y # ROOM_SIZE - 1}
    /\ \E goal \in GoalInputs :
          nav = [path |-> <<RIGHT, RIGHT>>, target |-> PositionToId(goal),
                 last |-> PositionToId(creepPos),
                 stuck |-> RANDOM_MAX - CHANCE - STUCK_LIMIT]
    /\ phase = "call"
    /\ navCalls = 0
    /\ navCall = [NoNavCall EXCEPT !.plan = <<RIGHT, RIGHT>>]
    /\ CartoIdle

\* the caller keeps the target it had
NextStall ==
    \/ \E goal \in {g \in GoalInputs : PositionToId(g) = nav.target} :
       \E opts \in NavOptsInputs : GetNextMove(goal, opts)
    \/ StepPlays

SpecStall == InitStall /\ [][NextStall]_vars

(***************************************************************************)
(* Cartographer: one call of findPath, or of callPathFinder by a caller    *)
(* that has a route, with what the call reads of the world                 *)
(***************************************************************************)
CartoRequests ==
    {[kind |-> "findPath", start |-> CartoStart, goal |-> g, opts |-> o,
      facts |-> f, route |-> NoRoute, mine |-> {}] :
        g \in CartoGoals, o \in CartoOptsInputs, f \in GoalFacts}
    \cup {[kind |-> "callPathFinder", start |-> CartoStart, goal |-> g,
           opts |-> o, facts |-> f, route |-> r, mine |-> {}] :
             g \in CartoGoals, o \in CartoOptsInputs, f \in GoalFacts,
             r \in RouteInputs}
    \cup {[NoCartoReq EXCEPT !.kind = "getRoute", !.start = CartoStart,
                             !.goal = g, !.opts = o, !.mine = m] :
             g \in CartoGoals, o \in RouteOptsInputs,
             m \in {{}, {StartRoom}, {NearRoom}}}

InitCarto ==
    /\ OFFSETS = <<>>
    /\ CodecIdle
    /\ AtlasIdle
    /\ NavIdle
    /\ cartoReq \in CartoRequests
    /\ cartoRes = NoCartoRes

\* findPath(start, goal, opts); PathFinder.search() is reached when the
\* rooms are at most two apart
FindPath ==
    /\ cartoReq.kind = "findPath"
    /\ ~cartoRes.done
    /\ \E probe \in {FindPathRun(cartoReq.start, cartoReq.goal, cartoReq.opts,
                                  cartoReq.facts, NoResult)} :
       \E res \in (IF probe.searches # <<>> THEN SearchResults ELSE {NoResult}) :
          cartoRes' = [done |-> TRUE, res |-> res,
                       out |-> FindPathRun(cartoReq.start, cartoReq.goal,
                                           cartoReq.opts, cartoReq.facts, res)]
    /\ UNCHANGED <<cartoReq, OFFSETS, codecVars, atlasVars, navVars>>

\* callPathFinder(start, end, opts, route), called by hand
CallPathFinderByHand ==
    /\ cartoReq.kind = "callPathFinder"
    /\ ~cartoRes.done
    /\ \E res \in SearchResults :
          cartoRes' = [done |-> TRUE, res |-> res,
                       out |-> Returned("result", res.path,
                                        <<CallPathFinder(cartoReq.start, cartoReq.goal,
                                                         cartoReq.opts, cartoReq.route,
                                                         cartoReq.facts)>>)]
    /\ UNCHANGED <<cartoReq, OFFSETS, codecVars, atlasVars, navVars>>

\* getRoute(start, end, opts), called by hand; Game.map.findRoute() returns
\* ERR_NO_PATH (ok = FALSE) or the rooms after the first
GetRoute ==
    /\ cartoReq.kind = "getRoute"
    /\ ~cartoRes.done
    /\ \E found \in {[ok |-> FALSE, rooms |-> <<>>],
                     [ok |-> TRUE, rooms |-> <<SideRoom, FarRoom>>]} :
       \E r \in {GetRouteRun(cartoReq.start.roomName, cartoReq.goal.roomName,
                              cartoReq.opts, cartoReq.mine, found)} :
          cartoRes' = [done |-> TRUE, res |-> NoResult,
                       out |-> Returned("route", r, <<>>)]
    /\ UNCHANGED <<cartoReq, OFFSETS, codecVars, atlasVars, navVars>>

NextCarto ==
    \/ FindPath
    \/ CallPathFinderByHand
    \/ GetRoute

SpecCarto == InitCarto /\ [][NextCarto]_vars

(***************************************************************************)
(* Claims on the codec                                                     *)
(***************************************************************************)
\* C1: round trip. A grid with at most 22 distinct nonzero costs, written
\* with costs in 0..255 by update(), by set() or by update() and then set(),
\* packed (once, without freeze) while the table has room for its costs and
\* unpacked with the table unchanged, comes back equal in every cell.
C1_RoundTrip ==
    (/\ un.has /\ un.sameTable /\ ~pk.frozen /\ ~pk.hist.packed
     /\ pk.hist.inRange /\ ~pk.hist.updAfterSet
     /\ Len(pk.offs) <= SPACER
     /\ Cardinality(Values(pk.orig)) <= SPACER)
        => un.bits = pk.orig

\* C2: the live table never holds more than 22 entries, and holds no cost
\* twice (a cost has one position, its symbol).
C2_TableBound ==
    /\ Len(OFFSETS) <= SPACER
    /\ \A i, j \in 1..Len(OFFSETS) : OFFSETS[i] = OFFSETS[j] => i = j

\* C3: a grid packed with freeze = true (costs in 0..255, written by
\* update() alone or by set() alone, not packed before) unpacks to the grid
\* that was packed, whatever the live table holds at unpack time and
\* whatever it held at pack time.
C3_FrozenRoundTrip ==
    (/\ un.has /\ pk.frozen
     /\ pk.hist.inRange /\ ~(pk.hist.upd /\ pk.hist.set) /\ ~pk.hist.packed)
        => un.bits = pk.orig

(***************************************************************************)
(* Claims on the Atlas cache                                               *)
(***************************************************************************)
\* C4: within one step, a getCosts call that repeats the call before it
\* (same region, same options, refreshMatrix not set) returns the same
\* instance; a region nobody refreshed by hand has had at most one rebuild,
\* one decode and one overlay in the step, observable or not; and the first
\* call of a later step returns a grid made in that step.
C4_SameInstance ==
    /\ (call.kind = "getCosts" /\ call.prev # NoRef) => call.ret = call.prev
    /\ \A r \in Rooms :
          ~stepLog[r].forced =>
              /\ stepLog[r].builds <= 1
              /\ stepLog[r].unpacks <= 1
              /\ stepLog[r].overlays <= 1
    /\ (call.kind = "getCosts" /\ call.didReset) => Born(call.ret) = time

\* C5: overlay isolation. Right after a write into the overlay of a region
\* (the 255s of _addCreeps, or a caller's write into the overlay it was
\* handed) the per-step grid of the region and the durable store are what
\* they were before the write, and a getCosts call without tracking that
\* follows returns a grid with the cells the per-step grid had.
C5_OverlayIsolation ==
    /\ OverlayWritten(call.id) =>
          /\ heap[COSTS_ROOM[call.id]].bits = call.base
          /\ PACKED_COSTS = call.packedBase
    /\ (call.kind = "getCosts" /\ call.afterOverlay) =>
          heap[call.ret].bits = call.expected

C5_Witness ==
    /\ call.kind = "getCosts" /\ call.afterOverlay
    /\ heap[COSTS_CREEP[call.id]].bits # heap[call.ret].bits
    /\ MatrixGet(heap[COSTS_CREEP[call.id]], MutCell[1], MutCell[2]) = MAX_COST

\* C6: a getCosts call that rebuilds the grid of a region that is not
\* observable returns an all-zero grid and leaves the durable store as it
\* was, and the next getCosts call for the region makes its grid again (by
\* a rebuild or by a decode of the durable entry).
C6_UnobservableRebuild ==
    call.kind = "getCosts" =>
        /\ (call.rebuild /\ ~call.observable) =>
              /\ heap[call.ret].bits = EmptyBits
              /\ PACKED_COSTS = call.packedBefore
        /\ call.owedBefore => (call.rebuild \/ call.unpacks)

\* C7: right after a getCosts call the grid returned, every per-step entry
\* and every overlay entry were made in the current step and lastReset is
\* the current step; when the call was the first of a step later than
\* lastReset, no entry of another region is left.
C7_NoStaleGrid ==
    call.kind = "getCosts" =>
        /\ Born(call.ret) = time
        /\ lastReset = time
        /\ \A r \in DOMAIN COSTS_ROOM : Born(COSTS_ROOM[r]) = time
        /\ \A r \in DOMAIN COSTS_CREEP : Born(COSTS_CREEP[r]) = time
        /\ call.didReset =>
              /\ DOMAIN COSTS_ROOM = {call.id}
              /\ DOMAIN COSTS_CREEP \subseteq {call.id}

C7_Witness ==
    /\ call.kind = "getCosts" /\ call.didReset
    /\ call.dropped >= 2
    /\ call.overlays

\* C8: once a step that is a multiple of 500 is over, a getCosts call finds
\* and leaves no durable entry written before that step for a region that
\* was observable in every step since.
C8_SweptEvery500 ==
    call.kind = "getCosts" =>
        \A r \in DOMAIN PACKED_COSTS :
            durableLog[r].stayed =>
                (time - 1) \div RESET_FREQUENCY <= durableLog[r].at \div RESET_FREQUENCY

(***************************************************************************)
(* Claims on the Navigator                                                 *)
(***************************************************************************)
\* C9: stall detection. After k getNextMove calls in a row that had a cached
\* path to the goal and saw the creep where the call before saw it (the call
\* before them planned, or saw the creep where the head move led), none of
\* which set off a resolution or a replan, the stall counter is k and the
\* call has popped no move.
C9_StallCount ==
    (navCall.kind = "getNextMove" /\ navCall.run >= 1) =>
        /\ nav.stuck = navCall.run
        /\ nav.path = navCall.before.path

C11_MismatchCounts ==
    LET b == navCall.before
        p2 == PositionFromId(b.last)
        d == HeadMove(b.path)
        px == p2.x + OffsetsX[d]
        py == p2.y + OffsetsY[d]
    IN  (/\ navCall.kind = "getNextMove" /\ ~navCall.miss /\ ~navCall.pathError
         /\ px \in 0..(ROOM_SIZE - 1) /\ py \in 0..(ROOM_SIZE - 1)
         /\ ~AsTold(navCall.at, b))
            => /\ nav.stuck = b.stuck + 1
               /\ nav.path = b.path

\* C12: a getNextMove call that has a cached path to the goal and sees the
\* creep on the cell the head move leads to from the cell recorded last
\* pops one move off the cached path and leaves the stall counter 0, on
\* border cells as on any other.
C12_AsToldPops ==
    (navCall.kind = "getNextMove" /\ ~navCall.miss
     /\ AsTold(navCall.at, navCall.before))
        => /\ navCall.popped
           /\ nav.path = Tail(navCall.before.path)
           /\ nav.stuck = 0

\* the cell the head move of the cached path leads to is outside the room
NextCellOutside(pos, path) ==
    LET d == HeadMove(path)
        dx == OffsetsX[d] + pos.x
        dy == OffsetsY[d] + pos.y
    IN  dx < 0 \/ dx > ROOM_SIZE - 1 \/ dy < 0 \/ dy > ROOM_SIZE - 1

C14_SwapKeepsPath ==
    (navCall.kind = "getNextMove" /\ navCall.resolving /\ navCall.swap.scheduled)
        => /\ ~navCall.pathError
           /\ navCall.from = NoPos
           /\ nav.path = navCall.before.path

\* C15: a getNextMove call whose moveObstruction finds a creep of another
\* player on the next cell gets a failure from it and calls findPath with
\* opts.trackCreeps on.
C15_HostileForcesTracking ==
    (/\ navCall.kind = "getNextMove" /\ navCall.resolving
     /\ ~NextCellOutside(navCall.at, navCall.before.path)
     /\ navCall.other.here /\ ~navCall.other.my)
        => /\ navCall.pathError
           /\ navCall.from = navCall.at
           /\ navCall.optsAfter.trackCreeps

\* C16: a getNextMove call that has called findPath and is left with an
\* empty path returns none of the eight directions, and navigateTo then
\* calls no creep.move().
C16_NoPathNoMove ==
    (navCall.kind = "getNextMove" /\ navCall.pathError /\ nav.path = <<>>)
        => /\ navCall.ret \notin TOP..TOP_LEFT
           /\ ~navCall.moveCmd.issued

(***************************************************************************)
(* Claims on the Cartographer                                              *)
(***************************************************************************)
\* C17: a findPath call between rooms more than two apart starts a first
\* search with a route; the callback of that search gives false for every
\* room off the route, and its maxRooms is the length of the route.
C17_RouteFirst ==
    (/\ cartoRes.done /\ cartoReq.kind = "findPath"
     /\ GetRoomLinearDistance(cartoReq.start.roomName, cartoReq.goal.roomName)
            > ROUTE_DISTANCE)
        => LET s == cartoRes.out.searches
           IN  /\ s # <<>>
               /\ s[1].route.has
               /\ ~cartoReq.opts.roomCallback =>
                     \A r \in CartoRooms \ Values(s[1].route.rooms) :
                         s[1].roomCallback[r] = "false"
               /\ s[1].maxRooms = Len(s[1].route.rooms)

\* C18: a findPath call starts at most two searches; it starts the second
\* one when, and only when, the first result is incomplete and the first
\* search had no route, the second search has a route, and the call then
\* returns what the second search found.
C18_OneRetry ==
    (cartoRes.done /\ cartoReq.kind = "findPath")
        => LET s == cartoRes.out.searches
           IN  /\ Len(s) <= 2
               /\ Len(s) = 2 =>
                     /\ cartoRes.res.incomplete
                     /\ ~s[1].route.has
                     /\ s[2].route.has
               /\ (Len(s) >= 1 /\ cartoRes.res.incomplete /\ ~s[1].route.has) =>
                     /\ Len(s) = 2
                     /\ cartoRes.out.threw = "none"

\* C19: the range of the goal of every search is opts.range when the key is
\* there; else 1 for a goal on a terrain wall; else 0 for a goal in a room
\* not in Game.rooms; else 1 when creeps are tracked and one stands on the
\* goal; else 1 when a structure that cannot be walked on (cost 255: not a
\* road, a container, an own or a public rampart) stands on the goal; else 0.
C19_GoalTolerance ==
    cartoRes.done =>
        \A i \in DOMAIN cartoRes.out.searches :
            cartoRes.out.searches[i].goal.range =
                (LET opts == cartoReq.opts
                     facts == cartoReq.facts
                 IN  IF opts.hasRange THEN opts.range
                     ELSE IF facts.wall THEN 1
                     ELSE IF ~facts.visible THEN 0
                     ELSE IF opts.trackCreeps /\ facts.creep THEN 1
                     ELSE IF \E k \in DOMAIN facts.structures :
                                 StructureCost(facts.structures[k]) = MAX_COST
                          THEN 1
                          ELSE 0)

\* C20: in every search started without a roomCallback of the caller, by
\* findPath or by a caller of callPathFinder that has a route, the callback
\* gives false for every room on opts.avoid, and Atlas.getCosts(room, opts)
\* for every other room that is on the route or has no route to be on.
C20_AvoidImpassable ==
    (cartoRes.done /\ ~cartoReq.opts.roomCallback) =>
        \A i \in DOMAIN cartoRes.out.searches :
            LET search == cartoRes.out.searches[i]
            IN  \A r \in CartoRooms :
                    /\ r \in cartoReq.opts.avoid => search.roomCallback[r] = "false"
                    /\ (/\ r \notin cartoReq.opts.avoid
                        /\ (search.route.has => r \in Values(search.route.rooms)))
                          => search.roomCallback[r] = "getCosts"

C20_Witness ==
    /\ cartoRes.done /\ cartoReq.kind = "findPath"
    /\ ~cartoReq.opts.roomCallback
    /\ cartoRes.out.threw = "none"
    /\ Len(cartoRes.out.searches) = 1
    /\ cartoReq.goal.roomName \in cartoReq.opts.avoid
    /\ cartoRes.out.searches[1].roomCallback[cartoReq.start.roomName] = "getCosts"

\* C21: no findPath call raises an exception, whatever the distance of the
\* rooms, the options (stealth, visualizePathStyle, serialize) and the
\* result of the search: every call returns.
C21_NoThrow ==
    (cartoRes.done /\ cartoReq.kind = "findPath") => cartoRes.out.threw = "none"

(***************************************************************************)
(* More claims on the codec                                                *)
(***************************************************************************)
\* C22: a grid written by update() alone, with costs in 0..255, packed
\* without freeze and unpacked with the table unchanged: the table holds at
\* most 22 entries, and every cell whose cost is 0 or one of the 22 costs of
\* the table comes back with its cost (a cell with a cost that found the
\* table full is the only one that may differ).
C22_FullTableSkipsCell ==
    (/\ un.has /\ un.sameTable /\ ~pk.frozen
     /\ pk.hist.upd /\ ~pk.hist.set /\ pk.hist.inRange /\ ~pk.hist.packed)
        => /\ Len(pk.offs) <= SPACER
           /\ \A i \in (DOMAIN pk.orig) \cup (DOMAIN un.bits) :
                 (\/ BitsGet(pk.orig, i) = 0
                  \/ \E k \in 1..Min(Len(pk.offs), SPACER) :
                        pk.offs[k] = BitsGet(pk.orig, i))
                    => BitsGet(un.bits, i) = BitsGet(pk.orig, i)

\* C23: idempotence. A grid with costs in 0..255 packed without freeze
\* (the table has room for its costs), unpacked and packed again, the table
\* being the same all along, gives the string of the first pack.
C23_Idempotent ==
    (/\ un.hasAgain /\ un.sameTable /\ un.againSameTable
     /\ ~pk.frozen /\ ~pk.hist.packed /\ pk.hist.inRange
     /\ Len(pk.offs) <= SPACER)
        => un.again = pk.str

\* C24: the first pack() of a grid, without freeze, gives one unit for each
\* cell with a nonzero cost and no other, whatever update() and set() calls
\* made the grid: the length of the string is the number of nonzero cells.
C24_OneUnitPerCell ==
    (pk.has /\ ~pk.frozen /\ ~pk.hist.packed)
        => Len(pk.str) = Cardinality(DOMAIN pk.orig)

\* C25: pack(true) leaves the live table as it was, also for a grid written
\* by set() alone that holds costs the table does not have.
C25_FreezeKeepsTable ==
    (pk.has /\ pk.frozen) => pk.offs = pk.offsBefore

C25_Witness ==
    /\ pk.has /\ pk.frozen
    /\ pk.hist.set /\ ~pk.hist.upd
    /\ \E i \in DOMAIN pk.orig : pk.orig[i] \notin Values(pk.offsBefore)

C28_AreaWrites ==
    (/\ call.kind = "getCosts" /\ call.rebuild /\ call.observable
     /\ call.opts.addArea # <<>>)
        => LET goals == call.opts.addArea
               built == AddStructures(Structures(call.id), 1, NewMatrix, <<>>).m
           IN  \A after \in {[g \in 0..Len(goals) |->
                                AddArea(SubSeq(goals, 1, g), 1, built, <<>>).m.bits]} :
               /\ call.base = after[Len(goals)]
               /\ \A g \in 1..Len(goals) :
                     \A i \in (DOMAIN after[g - 1]) \cup (DOMAIN after[g]) :
                        BitsGet(after[g], i) # BitsGet(after[g - 1], i)
                           => /\ \E k \in DOMAIN goals[g].objects :
                                    /\ Abs((i \div ROOM_SIZE) - goals[g].objects[k].x)
                                           <= goals[g].size
                                    /\ Abs((i % ROOM_SIZE) - goals[g].objects[k].y)
                                           <= goals[g].size
                              /\ ~IsWallAt(i \div ROOM_SIZE, i % ROOM_SIZE, call.id)
                              /\ BitsGet(after[g - 1], i) # MAX_COST
                              /\ goals[g].replace = FALSE
                                    => BitsGet(after[g - 1], i) = 0

\* a rebuild with overrides: the container's cell (0,48) and the free cell
\* (1,48) were replaced by the second override, the spawn's cell (0,49) kept
\* 255, the wall (1,49) was left out
C28_Witness ==
    /\ call.kind = "getCosts" /\ call.rebuild /\ call.observable
    /\ call.opts.addArea # <<>>
    /\ BitsGet(call.base, ROOM_SIZE - 2) = call.opts.addArea[2].cost
    /\ BitsGet(call.base, 2 * ROOM_SIZE - 2) = call.opts.addArea[2].cost
    /\ BitsGet(call.base, ROOM_SIZE - 1) = MAX_COST
    /\ BitsGet(call.base, 2 * ROOM_SIZE - 1) = 0

\* C29: the grid a getCosts call with refreshMatrix returns for an observable
\* region holds the structures' costs with the area overrides of that call,
\* and 255 on the creeps' cells when trackCreeps is set.
C29_RefreshReflectsCall ==
    (/\ call.kind = "getCosts" /\ call.opts.refreshMatrix /\ call.observable)
        => LET built == AddStructures(Structures(call.id), 1, NewMatrix, <<>>).m
               area == AddArea(call.opts.addArea, 1, built, <<>>).m
           IN  heap[call.ret].bits =
                  IF call.opts.trackCreeps
                  THEN SetAll(area, creeps[call.id], MAX_COST).bits
                  ELSE area.bits

C31_SwapOnlyToFree ==
    navCall.swap.scheduled
        => /\ navCall.other.here /\ navCall.other.my /\ ~navCall.other.busy
           /\ ~navCall.other.moved
           /\ ~navCall.other.swapScheduled

\* C32: a getNextMove call that finds a non-empty cached path to its goal and
\* whose stall counter is at most 2 after isAtExpected neither looks at the
\* next cell nor commands another creep nor calls findPath, and leaves the
\* cached path as it was or without its head; with opts.trackCreeps set, a
\* counter over 2 and 50 > draw - counter, the call plans from the creep's
\* cell without looking at the next cell or commanding another creep.
C32_QuietUnderLimit ==
    (/\ navCall.kind = "getNextMove"
     /\ navCall.before.path # <<>>
     /\ navCall.before.target = PositionToId(navCall.goal))
        => \A chk \in {IsAtExpected(navCall.at, navCall.before)} :
              /\ chk.stuck <= STUCK_LIMIT
                    => /\ ~navCall.resolving
                       /\ ~navCall.swap.scheduled
                       /\ navCall.from = NoPos
                       /\ nav.path \in {navCall.before.path,
                                        Tail(navCall.before.path)}
                       /\ navCall.optsAfter.trackCreeps = navCall.opts.trackCreeps
              /\ (/\ navCall.opts.trackCreeps
                  /\ chk.stuck > STUCK_LIMIT
                  /\ CHANCE > navCall.draw - chk.stuck)
                    => /\ ~navCall.resolving
                       /\ ~navCall.swap.scheduled
                       /\ navCall.from = navCall.at
                       /\ nav.path = navCall.found

\* a call at the limit: the second stall in a row on a cached path, next to a
\* call that could have looked at the next cell had the counter been higher
C32_Witness ==
    /\ navCall.kind = "getNextMove"
    /\ navCall.before.path # <<>>
    /\ navCall.before.target = PositionToId(navCall.goal)
    /\ ~navCall.opts.trackCreeps
    /\ navCall.before.stuck = STUCK_LIMIT - 1
    /\ nav.stuck = STUCK_LIMIT
    /\ nav.path = navCall.before.path
    /\ navCall.from = NoPos

\* C33: for every direction d of 1..8, COMPLIMENTS of d is the direction of
\* the opposite displacement and COMPLIMENTS applied twice gives d, and
\* getDirection of the displacement moveObstruction uses for d is d; and in
\* every getNextMove call that sees the creep on a cell of the room of the
\* cell recorded last, next to it, the comparison of isAtExpected,
\* COMPLIMENTS[head] = direction from the creep's cell to the recorded cell,
\* holds exactly when the creep's cell is the recorded cell displaced by the
\* head move; off the border cells that comparison is what the call pops on.
C33_TablesAgree ==
    /\ \A d \in TOP..TOP_LEFT :
          /\ COMPLIMENTS[d] \in TOP..TOP_LEFT
          /\ COMPLIMENTS[COMPLIMENTS[d]] = d
          /\ OffsetsX[COMPLIMENTS[d]] = -OffsetsX[d]
          /\ OffsetsY[COMPLIMENTS[d]] = -OffsetsY[d]
          /\ GetDirection(OffsetsX[d], OffsetsY[d]) = d
    /\ (navCall.kind = "getNextMove" /\ navCall.before.path # <<>>)
          => \A p1 \in {navCall.at} :
             \A p2 \in {PositionFromId(navCall.before.last)} :
                (/\ p1.roomName = p2.roomName
                 /\ p1 # p2
                 /\ Max(Abs(p1.x - p2.x), Abs(p1.y - p2.y)) = 1)
                   => /\ (COMPLIMENTS[Head(navCall.before.path)]
                             = GetDirectionTo(p1, p2))
                         <=> (/\ p1.x = p2.x + OffsetsX[Head(navCall.before.path)]
                              /\ p1.y = p2.y + OffsetsY[Head(navCall.before.path)])
                      /\ (/\ ~navCall.miss
                          /\ p1.x # 0 /\ p2.x # 0
                          /\ p1.y # ROOM_SIZE - 1 /\ p2.y # ROOM_SIZE - 1)
                            => (navCall.popped
                                  <=> (/\ p1.x = p2.x + OffsetsX[Head(navCall.before.path)]
                                       /\ p1.y = p2.y + OffsetsY[Head(navCall.before.path)]))

\* the creep went from (1,48) to (2,48) on a path that starts with RIGHT, and
\* the call popped the head
C33_Witness ==
    /\ navCall.kind = "getNextMove"
    /\ navCall.popped
    /\ navCall.before.path # <<>>
    /\ Head(navCall.before.path) = RIGHT
    /\ PositionFromId(navCall.before.last).x = 1
    /\ PositionFromId(navCall.before.last).y = ROOM_SIZE - 2
    /\ navCall.at.x = 2 /\ navCall.at.y = ROOM_SIZE - 2
    /\ GetDirectionTo(navCall.at, PositionFromId(navCall.before.last)) = LEFT

C35_StepGridIsDurable ==
    (/\ \/ call.kind = "getCosts" /\ (call.rebuild \/ call.unpacks)
        \/ call.kind = "refresh"
     /\ call.id \in DOMAIN PACKED_COSTS
     /\ call.id \in DOMAIN COSTS_ROOM)
        => heap[COSTS_ROOM[call.id]].bits
              = MatrixUnpack(PACKED_COSTS[call.id], OFFSETS).bits

\* C36: after every getNextMove call the cached path is a suffix of the path
\* the last findPath call returned; a call that does not plan leaves the
\* path no longer than it was, and it leaves it one move shorter, without
\* its head, exactly when isAtExpected returns true, and as it was
\* otherwise.
C36_PathIsSuffix ==
    navCall.kind = "getNextMove"
        => /\ \E k \in 0..Len(navCall.plan) :
                 nav.path = SubSeq(navCall.plan, k + 1, Len(navCall.plan))
           /\ navCall.pathError => nav.path = navCall.plan
           /\ ~navCall.pathError
                 => \A chk \in {IsAtExpected(navCall.at, navCall.before)} :
                       /\ Len(nav.path) <= Len(navCall.before.path)
                       /\ (Len(nav.path) = Len(navCall.before.path) - 1) <=> chk.ok
                       /\ chk.ok => nav.path = Tail(navCall.before.path)
                       /\ ~chk.ok => nav.path = navCall.before.path

\* the creep went where the head of the planned path RIGHT, RIGHT led, and
\* the call left RIGHT
C36_Witness ==
    /\ navCall.kind = "getNextMove"
    /\ ~navCall.pathError
    /\ navCall.plan = <<RIGHT, RIGHT>>
    /\ navCall.before.path = <<RIGHT, RIGHT>>
    /\ IsAtExpected(navCall.at, navCall.before).ok
    /\ nav.path = <<RIGHT>>

\* C37: a getNextMove call that finds its cached path, sees the creep
\* stalled and leaves isAtExpected with a stall counter of 51 or more looks
\* at the next cell or plans, whatever it draws; with a counter from 3 to 50
\* it does so exactly when 50 > draw - counter, and a call whose draw fails
\* that test leaves path, target and counter in place; with a counter of at
\* most 2 it does neither.
C37_ResponseBy51 ==
    (/\ navCall.kind = "getNextMove"
     /\ navCall.before.path # <<>>
     /\ navCall.before.target = PositionToId(navCall.goal))
        => \A chk \in {IsAtExpected(navCall.at, navCall.before)} :
              ~chk.ok
                 => /\ navCall.draw \in 0..RANDOM_MAX
                    /\ chk.stuck >= RANDOM_MAX - CHANCE + 1
                          => (navCall.resolving \/ navCall.from = navCall.at)
                    /\ chk.stuck \in (STUCK_LIMIT + 1)..(RANDOM_MAX - CHANCE)
                          => ((navCall.resolving \/ navCall.from = navCall.at)
                                 <=> CHANCE > navCall.draw - chk.stuck)
                    /\ ~(navCall.resolving \/ navCall.from = navCall.at)
                          => /\ nav.path = navCall.before.path
                             /\ nav.target = navCall.before.target
                             /\ nav.stuck = chk.stuck
                             /\ navCall.from = NoPos
                             /\ ~navCall.swap.scheduled

\* the draws of 100 put off the response at 49 and at 50, and the call that
\* counts 51 draws 100 and responds
C37_Witness ==
    /\ navCall.kind = "getNextMove"
    /\ navCall.before.path # <<>>
    /\ navCall.before.target = PositionToId(navCall.goal)
    /\ navCall.before.stuck = RANDOM_MAX - CHANCE
    /\ navCall.at = PositionFromId(navCall.before.last)
    /\ navCall.draw = RANDOM_MAX
    /\ navCall.resolving \/ navCall.from = navCall.at

\* C38: a getNextMove call leaves the options object it was passed as it
\* was: trackCreeps, anyRoom and addArea have after the call the values they
\* had before it.
C38_OptionsUntouched ==
    navCall.kind = "getNextMove" => navCall.optsAfter = navCall.opts

\* C39: the grid a getCosts call returns for an observable region, when the
\* call made the per-step grid (and the overlay it returns) itself, is the
\* grid of the region's structures with the area overrides of that call,
\* and 255 on the creeps' cells when trackCreeps is set, whatever the
\* options of the calls before it.
C39_OwnOptionsOnly ==
    (/\ call.kind = "getCosts" /\ call.observable
     /\ call.rebuild \/ call.unpacks
     /\ call.opts.trackCreeps => call.overlays)
        => \A built \in {AddStructures(Structures(call.id), 1, NewMatrix, <<>>).m} :
           \A area \in {AddArea(call.opts.addArea, 1, built, <<>>).m} :
              heap[call.ret].bits =
                 IF call.opts.trackCreeps
                 THEN SetAll(area, creeps[call.id], MAX_COST).bits
                 ELSE area.bits

\* C40: when the last findPath call returned a path that is not empty, the
\* value getNextMove returns is one of the directions 1..8, in the call that
\* pops the last move of the path too.
C40_AlwaysADirection ==
    (navCall.kind = "getNextMove" /\ navCall.plan # <<>>)
        => navCall.ret \in TOP..TOP_LEFT

====
